---- MODULE Spec2Model ----
(***************************************************************************)
(* The pipeline builder of vistk (pipeline.cxx): registry, connection      *)
(* book, type-check kernel, cluster flattener, type propagation,           *)
(* structural checks, edge materializer, frequency solver and lifecycle.   *)
(*                                                                         *)
(* A port address is <<name, port>>, a connection <<up_addr, down_addr>>.  *)
(* A rational is <<numerator, denominator>> in lowest terms; an absent     *)
(* (boost::optional) frequency is <<>>.                                    *)
(***************************************************************************)
EXTENDS Integers, Sequences, FiniteSets, TLC

\* Largest length any connection list may have when the caller issues connect.
MaxConnections == 2
\* Largest depth add_process may leave the parent stack at.
MaxParentStack == 1
\* The connections a calling program makes before the setup whose frequency
\* pass is examined on its own.
MaxSolverConnections == 3

(***************************************************************************)
(* Port types and flags (process.h constants used by pipeline.cxx).        *)
(***************************************************************************)
type_any == "any"
type_data_dependent == "data-dependent"
type_flow_dependent == "flow-dependent"
flag_output_const == "output-const"
flag_input_mutable == "input-mutable"
flag_input_nodep == "input-nodep"
flag_required == "required"

T_int == "int"
T_float == "float"
FlowT == "flow-dependent[T]"

\* boost::starts_with(type, process::type_flow_dependent)
IsFlowDep(type) == type \in {FlowT, "flow-dependent[U]", "flow-dependent[]"}

NoFreq == <<>>
Null == "<null>"
NoName == ""

(***************************************************************************)
(* The process objects the caller owns.  A catalog is the set of process   *)
(* and cluster objects of one calling program, with the connections it may *)
(* ask for.                                                                *)
(***************************************************************************)
Port(type, flags, freq) == [type |-> type, flags |-> flags, freq |-> freq]

Proc(iports, oports, configure_types, rejects) ==
  [cluster |-> FALSE, iports |-> iports, oports |-> oports,
   configure_types |-> configure_types, rejects |-> rejects,
   processes |-> <<>>, internal_connections |-> <<>>,
   input_mappings |-> <<>>, output_mappings |-> <<>>]

Cluster(processes, internal_connections, input_mappings, output_mappings) ==
  [cluster |-> TRUE, iports |-> <<>>, oports |-> <<>>,
   configure_types |-> <<>>, rejects |-> {},
   processes |-> processes, internal_connections |-> internal_connections,
   input_mappings |-> input_mappings, output_mappings |-> output_mappings]

\* A cluster object whose name() is not the key it is catalogued under.
NamedCluster(name, cluster) == [name |-> name] @@ cluster

Conn(un, up, dn, dp) == <<(<<un, up>>), (<<dn, dp>>)>>

\* A flow-dependent chain a.o -> b.i, b.o -> c.i with one typed end.
CatFlow ==
  [procs |->
     [a |-> Proc(<<>>, [o |-> Port(FlowT, {}, <<1, 1>>)], <<>>, {}),
      b |-> Proc([i |-> Port(FlowT, {}, <<1, 1>>)],
                 [o |-> Port(FlowT, {}, <<1, 1>>)], <<>>, {}),
      c |-> Proc([i |-> Port(T_int, {flag_required}, <<1, 1>>)],
                 <<>>, <<>>, {})],
   conns |-> {Conn("a", "o", "b", "i"), Conn("b", "o", "c", "i")}]

\* Data-dependent outputs: configure() settles e.o to int and leaves e.u.
CatData ==
  [procs |->
     [e |-> Proc(<<>>,
                 [o |-> Port(type_data_dependent, {}, <<1, 1>>),
                  u |-> Port(type_data_dependent, {}, <<1, 1>>)],
                 [o |-> T_int], {}),
      c |-> Proc([i |-> Port(T_int, {}, <<1, 1>>),
                  h |-> Port(T_float, {}, <<1, 1>>)],
                 <<>>, <<>>, {})],
   conns |-> {Conn("e", "o", "c", "i"), Conn("e", "u", "c", "i"),
              Conn("e", "o", "c", "h")}]

\* Concrete types, any, the const/mutable flags, undeclared frequencies.
CatFlags ==
  [procs |->
     [f |-> Proc(<<>>,
                 [o |-> Port(T_float, {flag_output_const, flag_required}, NoFreq)],
                 <<>>, {}),
      c |-> Proc([i |-> Port(T_int, {}, NoFreq),
                  m |-> Port(type_any, {flag_input_mutable}, NoFreq),
                  w |-> Port(type_any, {}, NoFreq)],
                 <<>>, <<>>, {})],
   conns |-> {Conn("f", "o", "c", "i"), Conn("f", "o", "c", "m"),
              Conn("f", "o", "c", "w")}]

\* Port frequencies 1/1 -> 1/2 and 1/1 -> 1/3 along a.o -> b.i, b.o -> c.i.
CatFreq ==
  [procs |->
     [a |-> Proc(<<>>, [o |-> Port(T_int, {}, <<1, 1>>)], <<>>, {}),
      b |-> Proc([i |-> Port(T_int, {flag_required}, <<1, 2>>)],
                 [o |-> Port(T_int, {}, <<1, 1>>)], <<>>, {}),
      c |-> Proc([i |-> Port(T_int, {}, <<1, 3>>)], <<>>, <<>>, {})],
   conns |-> {Conn("a", "o", "b", "i"), Conn("b", "o", "c", "i"),
              Conn("a", "o", "c", "i")}]

\* Cycles: a's inputs carry input-nodep, b.i does not; a.s runs at 1/2.
CatCycle ==
  [procs |->
     [a |-> Proc([i |-> Port(T_int, {flag_input_nodep}, <<1, 1>>),
                  s |-> Port(T_int, {flag_input_nodep}, <<1, 2>>)],
                 [o |-> Port(T_int, {}, <<1, 1>>)], <<>>, {}),
      b |-> Proc([i |-> Port(T_int, {}, <<1, 1>>)],
                 [o |-> Port(T_int, {}, <<1, 1>>)], <<>>, {})],
   conns |-> {Conn("a", "o", "b", "i"), Conn("b", "o", "a", "i"),
              Conn("b", "o", "b", "i"), Conn("a", "o", "a", "s")}]

\* Cluster k with child x: a fan-out input mapping and one output mapping.
CatCluster ==
  [procs |->
     [a |-> Proc([i |-> Port(T_int, {flag_input_nodep}, <<1, 1>>)],
                 [o |-> Port(T_int, {}, <<1, 1>>)], <<>>, {}),
      x |-> Proc([i |-> Port(T_int, {}, <<1, 1>>),
                  j |-> Port(T_int, {}, <<1, 1>>)],
                 [o |-> Port(T_int, {}, <<1, 1>>)], <<>>, {}),
      k |-> Cluster(<<"x">>, <<>>,
                    <<Conn("k", "in", "x", "i"), Conn("k", "in", "x", "j")>>,
                    <<Conn("x", "o", "k", "out")>>)],
   conns |-> {Conn("a", "o", "k", "in"), Conn("k", "out", "a", "i")}]

\* Cluster n holds cluster k, which holds x; n's ports map to k's ports.
CatNested ==
  [procs |->
     [x |-> Proc([i |-> Port(T_int, {flag_input_nodep}, <<1, 1>>)],
                 [o |-> Port(T_int, {}, <<1, 1>>)], <<>>, {}),
      k |-> Cluster(<<"x">>, <<Conn("x", "o", "x", "i")>>,
                    <<Conn("k", "in", "x", "i")>>,
                    <<Conn("x", "o", "k", "out")>>),
      n |-> Cluster(<<"k">>, <<>>,
                    <<Conn("n", "in", "k", "in")>>,
                    <<Conn("k", "out", "n", "out")>>)],
   conns |-> {Conn("n", "out", "n", "in"), Conn("x", "o", "k", "in")}]

\* Two objects of one name: the plain process p, and the cluster object kp
\* that is also named p and holds q.
CatNames ==
  [procs |->
     [p |-> Proc(<<>>, [o |-> Port(T_int, {}, NoFreq)], <<>>, {}),
      q |-> Proc([i |-> Port(T_int, {}, NoFreq)], <<>>, <<>>, {}),
      kp |-> NamedCluster("p", Cluster(<<"q">>, <<>>, <<>>, <<>>))],
   conns |-> {Conn("p", "o", "q", "i")}]

\* Cluster m with child x: port out has two output mappings and no other
\* port of m is mapped.
CatMappings ==
  [procs |->
     [x |-> Proc(<<>>, [o |-> Port(T_int, {}, <<1, 1>>),
                        p |-> Port(T_int, {}, <<1, 1>>)], <<>>, {}),
      m |-> Cluster(<<"x">>, <<>>, <<>>,
                    <<Conn("x", "o", "m", "out"), Conn("x", "p", "m", "out")>>)],
   conns |-> {Conn("m", "out", "m", "none"), Conn("m", "none", "m", "none"),
              Conn("x", "o", "m", "none")}]

\* Two self-feeding processes joined only by a connection whose upstream
\* port declares no frequency.
CatSplit ==
  [procs |->
     [a |-> Proc([s |-> Port(T_int, {flag_input_nodep}, <<1, 1>>)],
                 [o |-> Port(T_int, {}, <<1, 1>>),
                  u |-> Port(T_int, {}, NoFreq)], <<>>, {}),
      b |-> Proc([i |-> Port(T_int, {flag_input_nodep}, <<1, 1>>),
                  j |-> Port(T_int, {}, <<1, 1>>)],
                 [o |-> Port(T_int, {}, <<1, 1>>)], <<>>, {})],
   conns |-> {Conn("a", "o", "a", "s"), Conn("a", "u", "b", "j"),
              Conn("b", "o", "b", "i")}]

\* A flow-dependent chain p -> a -> b -> q between two int ports.
CatChain ==
  [procs |->
     [p |-> Proc(<<>>, [o |-> Port(T_int, {}, <<1, 1>>)], <<>>, {}),
      a |-> Proc([i |-> Port(FlowT, {}, <<1, 1>>)],
                 [o |-> Port(FlowT, {}, <<1, 1>>)], <<>>, {}),
      b |-> Proc([i |-> Port(FlowT, {}, <<1, 1>>)],
                 [o |-> Port(FlowT, {}, <<1, 1>>)], <<>>, {}),
      q |-> Proc([i |-> Port(T_int, {}, <<1, 1>>)], <<>>, <<>>, {})],
   conns |-> {Conn("p", "o", "a", "i"), Conn("a", "o", "b", "i"),
              Conn("b", "o", "q", "i")}]

\* The chain p -> a -> b -> q where b's type mutators refuse int.
CatReject ==
  [procs |->
     [p |-> Proc(<<>>, [o |-> Port(T_int, {}, <<1, 1>>)], <<>>, {}),
      a |-> Proc([i |-> Port(FlowT, {}, <<1, 1>>)],
                 [o |-> Port(FlowT, {}, <<1, 1>>)], <<>>, {}),
      b |-> Proc([i |-> Port(FlowT, {}, <<1, 1>>)],
                 [o |-> Port(FlowT, {}, <<1, 1>>)], <<>>, {T_int}),
      q |-> Proc([i |-> Port(T_int, {}, <<1, 1>>)], <<>>, <<>>, {})],
   conns |-> {Conn("p", "o", "a", "i"), Conn("a", "o", "b", "i"),
              Conn("b", "o", "q", "i")}]

Catalogs ==
  <<CatFlow, CatData, CatFlags, CatFreq, CatCycle, CatCluster, CatNested,
    CatNames, CatMappings, CatSplit, CatChain, CatReject>>

\* std::map iterates its keys in ascending order.
NameOrder ==
  <<"a", "b", "c", "e", "f", "k", "kp", "m", "n", "p", "q", "x">>

VARIABLES
  cat,     \* the calling program's catalog
  d,       \* pipeline::priv
  procs,   \* the state of every process object (port types, hook counters)
  pc,      \* position of the caller: "idle" or the setup pass about to run
  outcome  \* how the latest setup_pipeline call ended, until the next reset

vars == <<cat, d, procs, pc, outcome>>

\* The declaration of an object of the catalog.  A plain process is
\* catalogued under its name.
Decl(name) == cat.procs[name]
Names == DOMAIN cat.procs
PlainNames == {nm \in Names : ~Decl(nm).cluster}

\* process->name()
name_of(process) ==
  IF "name" \in DOMAIN Decl(process) THEN Decl(process).name ELSE process

\* The declaration of the cluster object registered under a name.
ClusterDecl(name) ==
  Decl(CHOOSE k \in Names : Decl(k).cluster /\ name_of(k) = name)

(***************************************************************************)
(* A call in progress is a record m = [d, procs, err]: the builder, the    *)
(* process objects, and the exception in flight ("" when none).            *)
(***************************************************************************)
Throw(m, e) == [m EXCEPT !.err = e]

\* BOOST_FOREACH (x, s) { m = F(m, x); } leaving the loop when F throws.
RECURSIVE ForEach(_, _, _)
ForEach(F(_, _), m, s) ==
  IF m.err # "" \/ s = <<>> THEN m
  ELSE ForEach(F, F(m, Head(s)), Tail(s))

\* The keys of a std::map<name_t, ...> in iteration order.
SortedNames(S) == SelectSeq(NameOrder, LAMBDA nm : nm \in S)

up_name(c) == c[1][1]
up_port(c) == c[1][2]
down_name(c) == c[2][1]
down_port(c) == c[2][2]

is_upstream_for(addr, connection) == addr = connection[1]
is_downstream_for(addr, connection) == addr = connection[2]
is_addr_on(name, addr) == name = addr[1]
is_connection_with(name, connection) ==
  is_addr_on(name, connection[1]) \/ is_addr_on(name, connection[2])
is_cluster_connection_with(name, cconnection) ==
  is_connection_with(name, cconnection[1])
is_cluster_connection_for(connection, cconnection) ==
  connection = cconnection[1]

(***************************************************************************)
(* The process contract (process.h; the implementations are external).     *)
(***************************************************************************)
NewProcess(name) ==
  [itype |-> [p \in DOMAIN Decl(name).iports |-> Decl(name).iports[p].type],
   otype |-> [p \in DOMAIN Decl(name).oports |-> Decl(name).oports[p].type],
   configured |-> 0, initialized |-> 0, core |-> <<>>]

has_input_port(name, port) == port \in DOMAIN Decl(name).iports
has_output_port(name, port) == port \in DOMAIN Decl(name).oports

\* A type may be (re)set on a port that is still any, data-dependent or
\* flow-dependent; a flow-dependent port takes its whole tag family along.
CanRetype(ps, name, old, type) ==
  /\ type \notin Decl(name).rejects
  /\ \/ old = type
     \/ old = type_any
     \/ old = type_data_dependent
     \/ IsFlowDep(old)

Retype(ps, name, isInput, port, old, type) ==
  [ps EXCEPT
     ![name].itype = [p \in DOMAIN @ |->
        IF (isInput /\ p = port) \/ (IsFlowDep(old) /\ @[p] = old)
        THEN type ELSE @[p]],
     ![name].otype = [p \in DOMAIN @ |->
        IF (~isInput /\ p = port) \/ (IsFlowDep(old) /\ @[p] = old)
        THEN type ELSE @[p]]]

\* set_input_port_type / set_output_port_type: [ok, procs]
set_input_port_type(ps, name, port, type) ==
  LET old == ps[name].itype[port] IN
  IF CanRetype(ps, name, old, type)
  THEN [ok |-> TRUE, procs |-> Retype(ps, name, TRUE, port, old, type)]
  ELSE [ok |-> FALSE, procs |-> ps]

set_output_port_type(ps, name, port, type) ==
  LET old == ps[name].otype[port] IN
  IF CanRetype(ps, name, old, type)
  THEN [ok |-> TRUE, procs |-> Retype(ps, name, FALSE, port, old, type)]
  ELSE [ok |-> FALSE, procs |-> ps]

\* configure(): a process may settle its data-dependent output types.
configure(ps, name) ==
  [ps EXCEPT
     ![name].configured = @ + 1,
     ![name].otype = [p \in DOMAIN @ |->
        IF p \in DOMAIN Decl(name).configure_types
        THEN Decl(name).configure_types[p] ELSE @[p]]]

init(ps, name) == [ps EXCEPT ![name].initialized = @ + 1]

process_reset(ps, name) ==
  [ps EXCEPT ![name].configured = 0, ![name].initialized = 0,
             ![name].core = <<>>]

set_core_frequency(ps, name, freq) ==
  [ps EXCEPT ![name].core = Append(@, freq)]

(***************************************************************************)
(* pipeline::priv                                                          *)
(***************************************************************************)
priv ==
  [planned_connections |-> <<>>, connections |-> <<>>,
   process_map |-> {}, cluster_map |-> {}, edge_map |-> <<>>,
   process_parent_map |-> <<>>, parent_stack |-> <<>>,
   data_dep_connections |-> <<>>, cluster_connections |-> <<>>,
   untyped_connections |-> <<>>, type_pinnings |-> <<>>,
   setup |-> FALSE, setup_in_progress |-> FALSE,
   setup_successful |-> FALSE, running |-> FALSE]

\* Faulty variant: the lookup never reports a missing process.
process_by_name_always_found(dd, name) == TRUE

\* process_by_name finds the process; when it does not it throws
\* no_such_process_exception.
process_by_name(dd, name) == name \in dd.process_map

\* Faulty variant: only the process map is searched for the name.
check_duplicate_name_process_map_only(m, name) ==
  IF name \in m.d.process_map THEN Throw(m, "DuplicateName") ELSE m

check_duplicate_name(m, name) ==
  IF name \in m.d.process_map \/ name \in m.d.cluster_map
  THEN Throw(m, "DuplicateName") ELSE m

Forget(conns, f(_)) == SelectSeq(conns, LAMBDA c : ~f(c))

remove_from_pipeline(m, name) ==
  [m EXCEPT
     !.d.planned_connections = Forget(@, LAMBDA c : is_connection_with(name, c)),
     !.d.connections = Forget(@, LAMBDA c : is_connection_with(name, c)),
     !.d.data_dep_connections = Forget(@, LAMBDA c : is_connection_with(name, c)),
     !.d.untyped_connections = Forget(@, LAMBDA c : is_connection_with(name, c)),
     !.d.cluster_connections =
        Forget(@, LAMBDA cc : is_cluster_connection_with(name, cc))]

\* [status, m]
\* Faulty variant: the two push directions are exchanged.
check_connection_types_swapped_push(m, connection, up_type, down_type) ==
  IF up_type = type_data_dependent
  THEN [status |-> "type_deferred",
        m |-> [m EXCEPT !.d.data_dep_connections = Append(@, connection)]]
  ELSE IF IsFlowDep(up_type) \/ IsFlowDep(down_type)
  THEN [status |-> "type_deferred",
        m |-> IF IsFlowDep(up_type) /\ IsFlowDep(down_type)
              THEN [m EXCEPT !.d.untyped_connections = Append(@, connection)]
              ELSE IF IsFlowDep(up_type)
              THEN [m EXCEPT !.d.type_pinnings =
                                Append(@, <<connection, "push_downstream">>)]
              ELSE [m EXCEPT !.d.type_pinnings =
                                Append(@, <<connection, "push_upstream">>)]]
  ELSE IF up_type # type_any /\ down_type # type_any /\ up_type # down_type
  THEN [status |-> "type_mismatch", m |-> m]
  ELSE [status |-> "type_compatible", m |-> m]

check_connection_types(m, connection, up_type, down_type) ==
  IF up_type = type_data_dependent
  THEN [status |-> "type_deferred",
        m |-> [m EXCEPT !.d.data_dep_connections = Append(@, connection)]]
  ELSE IF IsFlowDep(up_type) \/ IsFlowDep(down_type)
  THEN [status |-> "type_deferred",
        m |-> IF IsFlowDep(up_type) /\ IsFlowDep(down_type)
              THEN [m EXCEPT !.d.untyped_connections = Append(@, connection)]
              ELSE IF IsFlowDep(up_type)
              THEN [m EXCEPT !.d.type_pinnings =
                                Append(@, <<connection, "push_upstream">>)]
              ELSE [m EXCEPT !.d.type_pinnings =
                                Append(@, <<connection, "push_downstream">>)]]
  ELSE IF up_type # type_any /\ down_type # type_any /\ up_type # down_type
  THEN [status |-> "type_mismatch", m |-> m]
  ELSE [status |-> "type_compatible", m |-> m]

\* Faulty variant: a const output is refused whatever the input asks for.
check_connection_flags_const_only(up_flags, down_flags) ==
  flag_output_const \notin up_flags

check_connection_flags(up_flags, down_flags) ==
  LET is_const == flag_output_const \in up_flags
      requires_mutable == flag_input_mutable \in down_flags
  IN ~(is_const /\ requires_mutable)

connect(m, connection) ==
  IF m.d.setup /\ ~m.d.setup_in_progress
  THEN Throw(m, "ConnectionAfterSetup")
  ELSE
    LET un == up_name(connection)
        dn == down_name(connection)
        m1 == IF ~m.d.setup_in_progress
              THEN [m EXCEPT !.d.planned_connections = Append(@, connection)]
              ELSE m
    IN
    IF un \in m1.d.cluster_map
    THEN [m1 EXCEPT !.d.cluster_connections =
                       Append(@, <<connection, "cluster_upstream">>)]
    ELSE IF dn \in m1.d.cluster_map
    THEN [m1 EXCEPT !.d.cluster_connections =
                       Append(@, <<connection, "cluster_downstream">>)]
    ELSE IF ~process_by_name(m1.d, un) \/ ~process_by_name(m1.d, dn)
    THEN Throw(m1, "NoSuchProcess")
    ELSE IF ~has_output_port(un, up_port(connection))
            \/ ~has_input_port(dn, down_port(connection))
    THEN Throw(m1, "NoSuchPort")
    ELSE
      LET up_flags == Decl(un).oports[up_port(connection)].flags
          down_flags == Decl(dn).iports[down_port(connection)].flags
          up_type == m1.procs[un].otype[up_port(connection)]
          down_type == m1.procs[dn].itype[down_port(connection)]
          r == check_connection_types(m1, connection, up_type, down_type)
      IN
      IF ~check_connection_flags(up_flags, down_flags)
      THEN Throw(m1, "FlagMismatch")
      ELSE IF r.status = "type_deferred" THEN r.m
      ELSE IF r.status = "type_mismatch" THEN Throw(r.m, "TypeMismatch")
      ELSE [r.m EXCEPT !.d.connections = Append(@, connection)]

RECURSIVE add_process(_, _)
add_process(m, process) ==
  IF process = Null THEN Throw(m, "NullProcess")
  ELSE IF m.d.setup THEN Throw(m, "AddAfterSetup")
  ELSE IF check_duplicate_name(m, name_of(process)).err # ""
  THEN check_duplicate_name(m, name_of(process))
  ELSE
    LET name == name_of(process)
        parent == IF m.d.parent_stack # <<>>
                  THEN m.d.parent_stack[Len(m.d.parent_stack)] ELSE NoName
        parents == [nm \in DOMAIN m.d.process_parent_map \cup {name} |->
                      IF nm = name THEN parent ELSE m.d.process_parent_map[nm]]
    IN
    IF Decl(process).cluster
    THEN
      LET m1 == [m EXCEPT !.d.cluster_map = @ \cup {name},
                          !.d.process_parent_map = parents,
                          !.d.parent_stack = Append(@, name)]
          m2 == ForEach(add_process, m1, Decl(process).processes)
          m3 == ForEach(connect, m2, Decl(process).internal_connections)
      IN IF m3.err # "" THEN m3
         ELSE [m3 EXCEPT !.d.parent_stack = SubSeq(@, 1, Len(@) - 1)]
    ELSE [m EXCEPT !.d.process_map = @ \cup {name},
                   !.d.process_parent_map = parents]

RECURSIVE remove_process(_, _)
remove_process(m, name) ==
  IF m.d.setup THEN Throw(m, "RemoveAfterSetup")
  ELSE IF name \in m.d.cluster_map
  THEN LET cluster_procs == ClusterDecl(name).processes
           m1 == ForEach(remove_process, m,
                         [i \in 1..Len(cluster_procs) |->
                            name_of(cluster_procs[i])])
       IN IF m1.err # "" THEN m1
          ELSE [m1 EXCEPT !.d.cluster_map = @ \ {name}]
  ELSE IF name \notin m.d.process_map THEN Throw(m, "NoSuchProcess")
  ELSE remove_from_pipeline([m EXCEPT !.d.process_map = @ \ {name}], name)

disconnect(m, conn) ==
  IF m.d.setup THEN Throw(m, "DisconnectionAfterSetup")
  ELSE
    [m EXCEPT
       !.d.planned_connections = Forget(@, LAMBDA c : conn = c),
       !.d.connections = Forget(@, LAMBDA c : conn = c),
       !.d.data_dep_connections = Forget(@, LAMBDA c : conn = c),
       !.d.untyped_connections = Forget(@, LAMBDA c : conn = c),
       !.d.cluster_connections =
          Forget(@, LAMBDA cc : is_cluster_connection_for(conn, cc))]

reset(m) ==
  IF m.d.running THEN Throw(m, "ResetWhileRunning")
  ELSE
    LET m1 == [m EXCEPT
                 !.d.setup = FALSE, !.d.setup_successful = FALSE,
                 !.procs = [nm \in DOMAIN @ |->
                              IF nm \in m.d.process_map
                              THEN process_reset(@, nm)[nm] ELSE @[nm]],
                 !.d.connections = <<>>, !.d.edge_map = <<>>,
                 !.d.data_dep_connections = <<>>,
                 !.d.cluster_connections = <<>>,
                 !.d.untyped_connections = <<>>,
                 !.d.type_pinnings = <<>>,
                 !.d.setup_in_progress = TRUE]
        m2 == ForEach(connect, m1, m1.d.planned_connections)
    IN IF m2.err # "" THEN m2
       ELSE [m2 EXCEPT !.d.setup_in_progress = FALSE]

(***************************************************************************)
(* Queries used by the setup passes.                                       *)
(***************************************************************************)
process_names(dd) == SortedNames(dd.process_map)

cluster_names(dd) == SortedNames(dd.cluster_map)

\* cluster_by_name finds the cluster; when it does not it throws
\* no_such_process_exception.
cluster_by_name(dd, name) == name \in dd.cluster_map

\* [err, parent]
parent_cluster(dd, name) ==
  IF name \notin DOMAIN dd.process_parent_map
  THEN [err |-> "NoSuchProcess", parent |-> NoName]
  ELSE [err |-> "", parent |-> dd.process_parent_map[name]]

\* The downstream addresses planned from an output port, in planned order.
connections_from_addr(dd, name, port) ==
  LET from == SelectSeq(dd.planned_connections,
                        LAMBDA c : c[1] = <<name, port>>)
  IN [i \in 1..Len(from) |-> from[i][2]]

\* The first upstream address planned into an input port, or the empty address.
connection_to_addr(dd, name, port) ==
  LET to == SelectSeq(dd.planned_connections,
                      LAMBDA c : c[2] = <<name, port>>)
  IN IF to = <<>> THEN <<>> ELSE to[1][1]

IndexSet(conns) == {i \in 1..Len(conns) : TRUE}

\* The names of a std::set<name_t>, in order.
upstream_for_process(dd, name) ==
  SortedNames({up_name(dd.connections[i]) : i \in
                 {j \in IndexSet(dd.connections) :
                    down_name(dd.connections[j]) = name}})

downstream_for_process(dd, name) ==
  SortedNames({down_name(dd.connections[i]) : i \in
                 {j \in IndexSet(dd.connections) :
                    up_name(dd.connections[j]) = name}})

\* The first connection into the port, or the empty address.
sender_for_port(dd, name, port) ==
  LET hits == {i \in IndexSet(dd.connections) :
                 dd.connections[i][2] = <<name, port>>}
  IN IF hits = {} THEN <<>>
     ELSE dd.connections[CHOOSE i \in hits : \A j \in hits : i <= j][1]

\* edge_map is keyed by the 0-based index of the connection.  The first edge
\* into the port as a one-element sequence, or the null edge <<>>.
input_edge_for_port(dd, name, port) ==
  LET hits == {i \in DOMAIN dd.edge_map :
                 dd.connections[i + 1][2] = <<name, port>>}
  IN IF hits = {} THEN <<>>
     ELSE <<CHOOSE i \in hits : \A j \in hits : i <= j>>

output_edges_for_port(dd, name, port) ==
  {i \in DOMAIN dd.edge_map : dd.connections[i + 1][1] = <<name, port>>}

(***************************************************************************)
(* The setup passes.                                                       *)
(***************************************************************************)
check_for_processes(m) ==
  IF m.d.process_map = {} THEN Throw(m, "NoProcesses") ELSE m

\* Faulty variant: only the first matching input mapping is connected.
map_cluster_connection_no_fanout(m, cconnection) ==
  LET connection == cconnection[1]
      type == cconnection[2]
      upstream_addr == connection[1]
      downstream_addr == connection[2]
  IN
  IF type = "cluster_upstream"
  THEN
    IF upstream_addr[1] \notin m.d.cluster_map THEN Throw(m, "NoSuchProcess")
    ELSE
      LET mapped_connections ==
            SelectSeq(ClusterDecl(upstream_addr[1]).output_mappings,
                      LAMBDA mc : is_downstream_for(upstream_addr, mc))
      IN IF mapped_connections = <<>> THEN Throw(m, "NoSuchPort")
         ELSE IF Len(mapped_connections) # 1 THEN Throw(m, "logic_error")
         ELSE connect(m, <<mapped_connections[1][1], downstream_addr>>)
  ELSE
    IF downstream_addr[1] \notin m.d.cluster_map THEN Throw(m, "NoSuchProcess")
    ELSE
      LET mapped_connections ==
            SelectSeq(ClusterDecl(downstream_addr[1]).input_mappings,
                      LAMBDA mc : is_upstream_for(downstream_addr, mc))
      IN IF mapped_connections = <<>> THEN Throw(m, "NoSuchPort")
         ELSE connect(m, <<upstream_addr, mapped_connections[1][2]>>)

\* Faulty variant: of several matching output mappings the first is taken.
map_cluster_connection_first_match(m, cconnection) ==
  LET connection == cconnection[1]
      type == cconnection[2]
      upstream_addr == connection[1]
      downstream_addr == connection[2]
  IN
  IF type = "cluster_upstream"
  THEN
    IF upstream_addr[1] \notin m.d.cluster_map THEN Throw(m, "NoSuchProcess")
    ELSE
      LET mapped_connections ==
            SelectSeq(ClusterDecl(upstream_addr[1]).output_mappings,
                      LAMBDA mc : is_downstream_for(upstream_addr, mc))
      IN IF mapped_connections = <<>> THEN Throw(m, "NoSuchPort")
         ELSE connect(m, <<mapped_connections[1][1], downstream_addr>>)
  ELSE
    IF downstream_addr[1] \notin m.d.cluster_map THEN Throw(m, "NoSuchProcess")
    ELSE
      LET mapped_connections ==
            SelectSeq(ClusterDecl(downstream_addr[1]).input_mappings,
                      LAMBDA mc : is_upstream_for(downstream_addr, mc))
          connect_mapped(mm, mc) == connect(mm, <<upstream_addr, mc[2]>>)
      IN IF mapped_connections = <<>> THEN Throw(m, "NoSuchPort")
         ELSE ForEach(connect_mapped, m, mapped_connections)

map_cluster_connection(m, cconnection) ==
  LET connection == cconnection[1]
      type == cconnection[2]
      upstream_addr == connection[1]
      downstream_addr == connection[2]
  IN
  IF type = "cluster_upstream"
  THEN
    IF upstream_addr[1] \notin m.d.cluster_map THEN Throw(m, "NoSuchProcess")
    ELSE
      LET mapped_connections ==
            SelectSeq(ClusterDecl(upstream_addr[1]).output_mappings,
                      LAMBDA mc : is_downstream_for(upstream_addr, mc))
      IN IF mapped_connections = <<>> THEN Throw(m, "NoSuchPort")
         ELSE IF Len(mapped_connections) # 1 THEN Throw(m, "logic_error")
         ELSE connect(m, <<mapped_connections[1][1], downstream_addr>>)
  ELSE
    IF downstream_addr[1] \notin m.d.cluster_map THEN Throw(m, "NoSuchProcess")
    ELSE
      LET mapped_connections ==
            SelectSeq(ClusterDecl(downstream_addr[1]).input_mappings,
                      LAMBDA mc : is_upstream_for(downstream_addr, mc))
          connect_mapped(mm, mc) == connect(mm, <<upstream_addr, mc[2]>>)
      IN IF mapped_connections = <<>> THEN Throw(m, "NoSuchPort")
         ELSE ForEach(connect_mapped, m, mapped_connections)

\* Faulty variant: the pass does not call itself again for the connections it queued.
map_cluster_connections_once(m) ==
  ForEach(map_cluster_connection,
          [m EXCEPT !.d.cluster_connections = <<>>], m.d.cluster_connections)

\* One entry of map_cluster_connections up to its call of itself.
map_cluster_sweep(m) ==
  LET cconnections == m.d.cluster_connections
  IN ForEach(map_cluster_connection,
             [m EXCEPT !.d.cluster_connections = <<>>], cconnections)

RECURSIVE map_cluster_connections(_)
map_cluster_connections(m) ==
  LET m1 == map_cluster_sweep(m)
  IN IF m1.err # "" THEN m1
     ELSE IF m1.d.cluster_connections # <<>> THEN map_cluster_connections(m1)
     ELSE m1

\* Faulty variant: an output that is still data-dependent after configure()
\* is left on the data-dependent list instead of failing the setup.
configure_process_keeps_untyped(m, name) ==
  LET m0 == [m EXCEPT !.procs = configure(@, name)]
      step(st, c) ==
        IF st.m.err # "" THEN st
        ELSE IF name = up_name(c)
                /\ st.m.procs[name].otype[up_port(c)] # type_data_dependent
        THEN [st EXCEPT !.m = connect(@, c), !.resolved_types = TRUE]
        ELSE [st EXCEPT !.unresolved = Append(@, c)]
      Walk[i \in 0..Len(m0.d.data_dep_connections)] ==
        IF i = 0
        THEN [m |-> m0, unresolved |-> <<>>, resolved_types |-> FALSE]
        ELSE step(Walk[i - 1], m0.d.data_dep_connections[i])
      end == Walk[Len(m0.d.data_dep_connections)]
  IN IF end.m.err # "" THEN end.m
     ELSE IF end.resolved_types
     THEN [end.m EXCEPT !.d.data_dep_connections = end.unresolved]
     ELSE end.m

\* One process of the configure loop; st = [m, unresolved, resolved_types]
\* while the data-dependent connections are walked.
configure_process(m, name) ==
  LET m0 == [m EXCEPT !.procs = configure(@, name)]
      step(st, c) ==
        IF st.m.err # "" THEN st
        ELSE IF name = up_name(c)
        THEN IF st.m.procs[name].otype[up_port(c)] = type_data_dependent
             THEN [st EXCEPT !.m = Throw(@, "UntypedDataDependent")]
             ELSE [st EXCEPT !.m = connect(@, c), !.resolved_types = TRUE]
        ELSE [st EXCEPT !.unresolved = Append(@, c)]
      Walk[i \in 0..Len(m0.d.data_dep_connections)] ==
        IF i = 0
        THEN [m |-> m0, unresolved |-> <<>>, resolved_types |-> FALSE]
        ELSE step(Walk[i - 1], m0.d.data_dep_connections[i])
      end == Walk[Len(m0.d.data_dep_connections)]
  IN IF end.m.err # "" THEN end.m
     ELSE IF end.resolved_types
     THEN [end.m EXCEPT !.d.data_dep_connections = end.unresolved]
     ELSE end.m

configure_processes(m) ==
  ForEach(configure_process, m, process_names(m.d))

check_for_data_dep_ports(m) ==
  IF m.d.data_dep_connections # <<>> THEN Throw(m, "logic_error") ELSE m

\* Faulty variant: a type is pushed up a connection but never down one.
propagate_connection_up_only(st, name, connection) ==
  LET m == st.m
      un == up_name(connection)
      dn == down_name(connection)
      keep == [st EXCEPT !.m.d.untyped_connections = Append(@, connection)]
  IN
  IF dn = name
  THEN
    LET type == m.procs[name].itype[down_port(connection)] IN
    IF IsFlowDep(type) THEN keep
    ELSE IF ~process_by_name(m.d, un)
    THEN [st EXCEPT !.m = Throw(@, "NoSuchProcess")]
    ELSE
      LET r == set_output_port_type(m.procs, un, up_port(connection), type) IN
      IF ~r.ok THEN [st EXCEPT !.m = Throw(@, "propagation_exception")]
      ELSE [m |-> connect([m EXCEPT !.procs = r.procs], connection),
            kyu |-> Append(st.kyu, un)]
  ELSE keep

\* Faulty variant: a resolved connection puts its far end on the queue twice.
propagate_connection_enqueue_twice(st, name, connection) ==
  LET m == st.m
      un == up_name(connection)
      dn == down_name(connection)
      keep == [st EXCEPT !.m.d.untyped_connections = Append(@, connection)]
  IN
  IF dn = name
  THEN
    LET type == m.procs[name].itype[down_port(connection)] IN
    IF IsFlowDep(type) THEN keep
    ELSE IF ~process_by_name(m.d, un)
    THEN [st EXCEPT !.m = Throw(@, "NoSuchProcess")]
    ELSE
      LET r == set_output_port_type(m.procs, un, up_port(connection), type) IN
      IF ~r.ok THEN [st EXCEPT !.m = Throw(@, "propagation_exception")]
      ELSE [m |-> connect([m EXCEPT !.procs = r.procs], connection),
            kyu |-> st.kyu \o <<un, un>>]
  ELSE IF un = name
  THEN
    LET type == m.procs[name].otype[up_port(connection)] IN
    IF IsFlowDep(type) THEN keep
    ELSE IF ~process_by_name(m.d, dn)
    THEN [st EXCEPT !.m = Throw(@, "NoSuchProcess")]
    ELSE
      LET r == set_input_port_type(m.procs, dn, down_port(connection), type) IN
      IF ~r.ok THEN [st EXCEPT !.m = Throw(@, "propagation_exception")]
      ELSE [m |-> connect([m EXCEPT !.procs = r.procs], connection),
            kyu |-> st.kyu \o <<dn, dn>>]
  ELSE keep

\* One untyped connection of propagate's inner loop; st = [m, kyu].
propagate_connection(st, name, connection) ==
  LET m == st.m
      un == up_name(connection)
      dn == down_name(connection)
      keep == [st EXCEPT !.m.d.untyped_connections = Append(@, connection)]
  IN
  IF dn = name
  THEN
    LET type == m.procs[name].itype[down_port(connection)] IN
    IF IsFlowDep(type) THEN keep
    ELSE IF ~process_by_name(m.d, un)
    THEN [st EXCEPT !.m = Throw(@, "NoSuchProcess")]
    ELSE
      LET r == set_output_port_type(m.procs, un, up_port(connection), type) IN
      IF ~r.ok THEN [st EXCEPT !.m = Throw(@, "propagation_exception")]
      ELSE [m |-> connect([m EXCEPT !.procs = r.procs], connection),
            kyu |-> Append(st.kyu, un)]
  ELSE IF un = name
  THEN
    LET type == m.procs[name].otype[up_port(connection)] IN
    IF IsFlowDep(type) THEN keep
    ELSE IF ~process_by_name(m.d, dn)
    THEN [st EXCEPT !.m = Throw(@, "NoSuchProcess")]
    ELSE
      LET r == set_input_port_type(m.procs, dn, down_port(connection), type) IN
      IF ~r.ok THEN [st EXCEPT !.m = Throw(@, "propagation_exception")]
      ELSE [m |-> connect([m EXCEPT !.procs = r.procs], connection),
            kyu |-> Append(st.kyu, dn)]
  ELSE keep

\* One turn of propagate's while loop: a name leaves the queue and the
\* flow-untyped list is walked for it.
propagate_sweep(st) ==
  LET name == Head(st.kyu)
      conns == st.m.d.untyped_connections
      Walk[i \in 0..Len(conns)] ==
        IF i = 0
        THEN [m |-> [st.m EXCEPT !.d.untyped_connections = <<>>],
              kyu |-> Tail(st.kyu)]
        ELSE IF Walk[i - 1].m.err # "" THEN Walk[i - 1]
        ELSE propagate_connection(Walk[i - 1], name, conns[i])
  IN IF ~process_by_name(st.m.d, name)
     THEN [m |-> Throw(st.m, "NoSuchProcess"), kyu |-> Tail(st.kyu)]
     ELSE Walk[Len(conns)]

RECURSIVE propagate_queue(_)
propagate_queue(st) ==
  IF st.m.err # "" \/ st.kyu = <<>> THEN st.m
  ELSE propagate_queue(propagate_sweep(st))

propagate(m, root) == propagate_queue([m |-> m, kyu |-> <<root>>])

\* Faulty variant: the cascade's failure is rethrown as it is.
propagate_pinning_unwrapped(m, pinning) ==
  LET connection == pinning[1]
      direction == pinning[2]
      un == up_name(connection)
      dn == down_name(connection)
  IN
  IF ~process_by_name(m.d, un) \/ ~process_by_name(m.d, dn)
  THEN Throw(m, "NoSuchProcess")
  ELSE
    LET up_type == m.procs[un].otype[up_port(connection)]
        down_type == m.procs[dn].itype[down_port(connection)]
        r == IF direction = "push_upstream"
             THEN set_output_port_type(m.procs, un, up_port(connection), down_type)
             ELSE set_input_port_type(m.procs, dn, down_port(connection), up_type)
        name == IF direction = "push_upstream" THEN un ELSE dn
        m1 == propagate([m EXCEPT !.procs = r.procs], name)
    IN
    IF ~r.ok THEN Throw(m, "DependentTypeError")
    ELSE IF m1.err # "" THEN m1
    ELSE connect(m1, connection)

\* The (name, port, type) handed to connection_dependent_type_cascade_exception
\* when the cascade of a pinning fails.
cascade_exception(m, pinning) ==
  LET connection == pinning[1] IN
  IF pinning[2] = "push_upstream"
  THEN [name |-> up_name(connection), port |-> up_port(connection),
        type |-> m.procs[down_name(connection)].itype[down_port(connection)]]
  ELSE [name |-> down_name(connection), port |-> down_port(connection),
        type |-> m.procs[up_name(connection)].otype[up_port(connection)]]

propagate_pinning(m, pinning) ==
  LET connection == pinning[1]
      direction == pinning[2]
      un == up_name(connection)
      dn == down_name(connection)
  IN
  IF ~process_by_name(m.d, un) \/ ~process_by_name(m.d, dn)
  THEN Throw(m, "NoSuchProcess")
  ELSE
    LET up_type == m.procs[un].otype[up_port(connection)]
        down_type == m.procs[dn].itype[down_port(connection)]
        r == IF direction = "push_upstream"
             THEN set_output_port_type(m.procs, un, up_port(connection), down_type)
             ELSE set_input_port_type(m.procs, dn, down_port(connection), up_type)
        name == IF direction = "push_upstream" THEN un ELSE dn
        m1 == propagate([m EXCEPT !.procs = r.procs], name)
    IN
    IF ~r.ok THEN Throw(m, "DependentTypeError")
    ELSE IF m1.err = "propagation_exception"
    THEN Throw(m1, "DependentTypeCascadeError")
    ELSE IF m1.err # "" THEN m1
    ELSE connect(m1, connection)

RECURSIVE propagate_pinned_types(_)
propagate_pinned_types(m) ==
  LET pinnings == m.d.type_pinnings
      m1 == ForEach(propagate_pinning,
                    [m EXCEPT !.d.type_pinnings = <<>>], pinnings)
  IN IF m1.err # "" THEN m1
     ELSE IF m1.d.type_pinnings # <<>> THEN propagate_pinned_types(m1)
     ELSE m1

check_for_untyped_ports(m) ==
  IF m.d.untyped_connections # <<>> THEN Throw(m, "UntypedConnection") ELSE m

\* Faulty variant: every edge is given a true dependency key.
make_edge_always_dependent(connection) ==
  [dependency |-> TRUE,
   upstream |-> connection[1], downstream |-> connection[2]]

\* The edge built for a connection: its dependency key and its two ends.
make_edge(connection) ==
  LET down_flags == Decl(down_name(connection)).iports[down_port(connection)].flags
      has_nodep == flag_input_nodep \in down_flags
  IN [dependency |-> ~has_nodep,
      upstream |-> connection[1], downstream |-> connection[2]]

\* connect_output_port / connect_input_port of the process contract bind the
\* edge; the contract states no failure for them.
make_connections(m) ==
  LET len == Len(m.d.connections) IN
  IF \E i \in 1..len : \/ ~process_by_name(m.d, up_name(m.d.connections[i]))
                       \/ ~process_by_name(m.d, down_name(m.d.connections[i]))
  THEN Throw(m, "NoSuchProcess")
  ELSE [m EXCEPT !.d.edge_map =
          [i \in 0..(len - 1) |-> make_edge(m.d.connections[i + 1])]]

\* The required-port test made on one visited process.
missing_required_port(m, cur_proc) ==
  \/ \E port \in DOMAIN Decl(cur_proc).iports :
        /\ flag_required \in Decl(cur_proc).iports[port].flags
        /\ input_edge_for_port(m.d, cur_proc, port) = <<>>
  \/ \E port \in DOMAIN Decl(cur_proc).oports :
        /\ flag_required \in Decl(cur_proc).oports[port].flags
        /\ output_edges_for_port(m.d, cur_proc, port) = {}

\* The breadth-first visit: [err, procs] with procs the visited set.
RECURSIVE visit(_, _, _)
visit(m, to_visit, visited) ==
  IF to_visit = <<>> THEN [err |-> "", procs |-> visited]
  ELSE
    LET cur_proc == Head(to_visit) IN
    IF cur_proc \in visited THEN visit(m, Tail(to_visit), visited)
    ELSE IF ~process_by_name(m.d, cur_proc)
    THEN [err |-> "NoSuchProcess", procs |-> visited \cup {cur_proc}]
    ELSE IF missing_required_port(m, cur_proc)
    THEN [err |-> "MissingConnection", procs |-> visited \cup {cur_proc}]
    ELSE visit(m,
               Tail(to_visit) \o upstream_for_process(m.d, cur_proc)
                              \o downstream_for_process(m.d, cur_proc),
               visited \cup {cur_proc})

\* Faulty variant: the visited set is not compared with the registry.
check_for_required_ports_no_orphan_test(m) ==
  LET r == visit(m, <<process_names(m.d)[1]>>, {}) IN
  IF r.err # "" THEN Throw(m, r.err) ELSE m

check_for_required_ports(m) ==
  LET r == visit(m, <<process_names(m.d)[1]>>, {}) IN
  IF r.err # "" THEN Throw(m, r.err)
  ELSE IF Cardinality(r.procs) # Cardinality(m.d.process_map)
  THEN Throw(m, "OrphanedProcesses")
  ELSE m

\* Faulty variant: input-nodep ports are given graph edges as well.
dag_edges_with_nodep(dd) ==
  {<<sender_for_port(dd, name, port)[1], name>> :
     <<name, port>> \in
       {np \in UNION {{<<nm, pt>> : pt \in DOMAIN Decl(nm).iports} :
                        nm \in dd.process_map} :
          sender_for_port(dd, np[1], np[2]) # <<>>}}

\* The edges of the graph handed to boost::topological_sort.
dag_edges(dd) ==
  {<<sender_for_port(dd, name, port)[1], name>> :
     <<name, port>> \in
       {np \in UNION {{<<nm, pt>> : pt \in DOMAIN Decl(nm).iports} :
                        nm \in dd.process_map} :
          /\ sender_for_port(dd, np[1], np[2]) # <<>>
          /\ flag_input_nodep \notin Decl(np[1]).iports[np[2]].flags}}

\* The vertices reachable from v in one or more steps of E.
RECURSIVE Reach(_, _, _)
Reach(E, frontier, seen) ==
  LET next == {e[2] : e \in {e \in E : e[1] \in frontier}} \ seen IN
  IF next = {} THEN seen ELSE Reach(E, next, seen \cup next)

HasCycle(E) == \E e \in E : e[1] \in Reach(E, {e[1]}, {})

check_for_dag(m) ==
  IF HasCycle(dag_edges(m.d)) THEN Throw(m, "NotADAG") ELSE m

initialize_processes(m) ==
  [m EXCEPT !.procs = [nm \in DOMAIN @ |->
                         IF nm \in m.d.process_map
                         THEN init(@, nm)[nm] ELSE @[nm]]]

(***************************************************************************)
(* boost::rational over positive integers.                                 *)
(***************************************************************************)
RECURSIVE GCD(_, _)
GCD(x, y) == IF y = 0 THEN x ELSE GCD(y, x % y)
LCM(x, y) == (x * y) \div GCD(x, y)
Rational(n, dn) == <<n \div GCD(n, dn), dn \div GCD(n, dn)>>
RatMul(p, q) == Rational(p[1] * q[1], p[2] * q[2])
RatDiv(p, q) == Rational(p[1] * q[2], p[2] * q[1])
base_freq == Rational(1, 1)

\* The work-queue loop of check_port_frequencies: [freq_map, err, hang].
\* stalled counts the connections requeued in a row: once it reaches the
\* length of the queue the loop repeats its state for ever.
RECURSIVE frequency_loop(_, _, _, _)
frequency_loop(dd, unchecked_connections, freq_map, stalled) ==
  IF unchecked_connections = <<>>
  THEN [freq_map |-> freq_map, err |-> "", hang |-> FALSE]
  ELSE IF stalled >= Len(unchecked_connections)
  THEN [freq_map |-> freq_map, err |-> "", hang |-> TRUE]
  ELSE IF \/ ~process_by_name(dd, up_name(Head(unchecked_connections)))
          \/ ~process_by_name(dd, down_name(Head(unchecked_connections)))
  THEN [freq_map |-> freq_map, err |-> "NoSuchProcess", hang |-> FALSE]
  ELSE
    LET connection == Head(unchecked_connections)
        rest == Tail(unchecked_connections)
        un == up_name(connection)
        dn == down_name(connection)
        up_port_freq == Decl(un).oports[up_port(connection)].freq
        down_port_freq == Decl(dn).iports[down_port(connection)].freq
        seed == un \notin DOMAIN freq_map /\ dn \notin DOMAIN freq_map
                /\ DOMAIN freq_map = {}
        seeded == IF seed
                  THEN [nm \in {un} |-> base_freq] ELSE freq_map
        have_upstream == seed \/ un \in DOMAIN freq_map
        have_downstream == dn \in DOMAIN freq_map
        assign(fm, nm, f) ==
          [x \in DOMAIN fm \cup {nm} |-> IF x = nm THEN f ELSE fm[x]]
    IN
    IF up_port_freq = NoFreq \/ down_port_freq = NoFreq
    THEN frequency_loop(dd, rest, freq_map, 0)
    ELSE IF have_upstream /\ have_downstream
    THEN IF seeded[dn] # RatDiv(RatMul(seeded[un], up_port_freq), down_port_freq)
         THEN [freq_map |-> seeded, err |-> "FrequencyMismatch", hang |-> FALSE]
         ELSE frequency_loop(dd, rest, seeded, 0)
    ELSE IF have_upstream
    THEN frequency_loop(dd, rest,
           assign(seeded, dn,
                  RatDiv(RatMul(seeded[un], up_port_freq), down_port_freq)), 0)
    ELSE IF have_downstream
    THEN frequency_loop(dd, rest,
           assign(seeded, un,
                  RatDiv(RatMul(seeded[dn], down_port_freq), up_port_freq)), 0)
    ELSE frequency_loop(dd, Append(rest, connection), seeded, stalled + 1)

RECURSIVE LcmOfDenominators(_, _)
LcmOfDenominators(freq_map, names) ==
  IF names = <<>> THEN 1
  ELSE LCM(freq_map[Head(names)][2], LcmOfDenominators(freq_map, Tail(names)))

frequency_solution(m) == frequency_loop(m.d, m.d.connections, <<>>, 0)

\* Faulty variant: the single-process shortcut is missing.
check_port_frequencies_no_shortcut(m) ==
  LET r == frequency_solution(m)
      names == SortedNames(DOMAIN r.freq_map)
      freq_gcd == LcmOfDenominators(r.freq_map, names)
      core(mm, nm) ==
        [mm EXCEPT !.procs = set_core_frequency(@, nm,
           Rational(freq_gcd * r.freq_map[nm][1], r.freq_map[nm][2]))]
  IN IF r.err # "" THEN Throw(m, r.err)
     ELSE ForEach(core, m, names)

check_port_frequencies(m) ==
  IF Cardinality(m.d.process_map) = 1
  THEN [m EXCEPT !.procs =
          set_core_frequency(@, process_names(m.d)[1], base_freq)]
  ELSE
    LET r == frequency_solution(m)
        names == SortedNames(DOMAIN r.freq_map)
        freq_gcd == LcmOfDenominators(r.freq_map, names)
        core(mm, nm) ==
          [mm EXCEPT !.procs = set_core_frequency(@, nm,
             Rational(freq_gcd * r.freq_map[nm][1], r.freq_map[nm][2]))]
    IN IF r.err # "" THEN Throw(m, r.err)
       ELSE ForEach(core, m, names)

\* Faulty variant: a setup in progress does not count as set up.
ensure_setup_needs_success(m) ==
  IF ~m.d.setup THEN Throw(m, "PipelineNotSetup")
  ELSE IF ~m.d.setup_successful THEN Throw(m, "PipelineNotReady")
  ELSE m

\* The first statement of upstream_for_process, upstream_for_port,
\* downstream_for_process, downstream_for_port, sender_for_port,
\* receivers_for_port, edge_for_connection, input_edges_for_process,
\* input_edge_for_port, output_edges_for_process, output_edges_for_port and
\* start.
ensure_setup(m) ==
  IF ~m.d.setup THEN Throw(m, "PipelineNotSetup")
  ELSE IF ~m.d.setup_in_progress /\ ~m.d.setup_successful
  THEN Throw(m, "PipelineNotReady")
  ELSE m

\* Faulty variant: start does not look at the setup flags.
start_unguarded(m) == [m EXCEPT !.d.running = TRUE]

start(m) ==
  IF ensure_setup(m).err # "" THEN ensure_setup(m)
  ELSE [m EXCEPT !.d.running = TRUE]

stop(m) ==
  IF ~m.d.running THEN Throw(m, "logic_error")
  ELSE [m EXCEPT !.d.running = FALSE]

\* Faulty variant: the flags are set before the registry is looked at.
setup_begin_flags_first(m) ==
  IF m.d.setup THEN Throw(m, "DuplicateSetup")
  ELSE check_for_processes(
         [m EXCEPT !.d.setup = TRUE, !.d.setup_in_progress = TRUE,
                   !.d.setup_successful = FALSE])

\* setup_pipeline up to the try block.
setup_begin(m) ==
  IF m.d.setup THEN Throw(m, "DuplicateSetup")
  ELSE IF check_for_processes(m).err # "" THEN check_for_processes(m)
  ELSE [m EXCEPT !.d.setup = TRUE, !.d.setup_in_progress = TRUE,
                 !.d.setup_successful = FALSE]

\* Faulty variant: the catch block leaves the in-progress flag set.
setup_failed_flag_kept(dd) == dd

\* The catch (...) block of setup_pipeline.
setup_failed(dd) == [dd EXCEPT !.setup_in_progress = FALSE]

\* The two assignments after the try block.
setup_succeeded(dd) ==
  [dd EXCEPT !.setup_in_progress = FALSE, !.setup_successful = TRUE]

\* The passes of the try block, in call order.
PassOrder ==
  <<"map_cluster_connections", "configure_processes",
    "check_for_data_dep_ports", "propagate_pinned_types",
    "check_for_untyped_ports", "make_connections",
    "check_for_required_ports", "check_for_dag", "initialize_processes",
    "check_port_frequencies">>

\* A frequency pass whose work queue stops shrinking never returns; as one
\* call that is the outcome "never returns".
run_pass(m, pass) ==
  CASE pass = "map_cluster_connections" -> map_cluster_connections(m)
    [] pass = "configure_processes" -> configure_processes(m)
    [] pass = "check_for_data_dep_ports" -> check_for_data_dep_ports(m)
    [] pass = "propagate_pinned_types" -> propagate_pinned_types(m)
    [] pass = "check_for_untyped_ports" -> check_for_untyped_ports(m)
    [] pass = "make_connections" -> make_connections(m)
    [] pass = "check_for_required_ports" -> check_for_required_ports(m)
    [] pass = "check_for_dag" -> check_for_dag(m)
    [] pass = "initialize_processes" -> initialize_processes(m)
    [] pass = "check_port_frequencies" ->
         IF Cardinality(m.d.process_map) # 1 /\ frequency_solution(m).hang
         THEN Throw(m, "never returns")
         ELSE check_port_frequencies(m)

\* setup_pipeline as one call, from its entry to its return or throw.
setup_pipeline(m) ==
  LET begun == setup_begin(m)
      r == ForEach(run_pass, begun, PassOrder)
  IN IF begun.err # "" THEN begun
     ELSE IF r.err = "never returns" THEN r
     ELSE IF r.err # "" THEN [r EXCEPT !.d = setup_failed(r.d)]
     ELSE [r EXCEPT !.d = setup_succeeded(r.d)]

(***************************************************************************)
(* The state machine.                                                      *)
(***************************************************************************)
M == [d |-> d, procs |-> procs, err |-> ""]

\* What the latest setup_pipeline call did: the pass that threw and the error.
Outcome(pass, err) == [pass |-> pass, err |-> err]
NoOutcome == Outcome("", "")

\* CatSplit, CatChain and CatReject are calling programs that are set up as
\* a whole (SolverSpec); the others are followed call by call.
CallByCall ==
  {Catalogs[i] : i \in 1..Len(Catalogs)} \ {CatSplit, CatChain, CatReject}

Init ==
  /\ cat \in CallByCall
  /\ d = priv
  /\ procs = [nm \in PlainNames |-> NewProcess(nm)]
  /\ pc = "idle"
  /\ outcome = NoOutcome

\* A call returns or throws: what it did to the builder stays.
Return(r) ==
  /\ d' = r.d
  /\ procs' = r.procs
  /\ UNCHANGED <<cat, pc, outcome>>

\* No connection list of dd is longer than bound.
ListsWithin(dd, bound) ==
  /\ Len(dd.planned_connections) <= bound
  /\ Len(dd.connections) <= bound
  /\ Len(dd.data_dep_connections) <= bound
  /\ Len(dd.untyped_connections) <= bound
  /\ Len(dd.type_pinnings) <= bound
  /\ Len(dd.cluster_connections) <= bound

AddProcess ==
  /\ pc = "idle"
  /\ \E process \in Names \cup {Null} :
       /\ Len(add_process(M, process).d.parent_stack) <= MaxParentStack
       /\ ListsWithin(add_process(M, process).d, MaxConnections)
       /\ Return(add_process(M, process))

RemoveProcess ==
  /\ pc = "idle"
  /\ \E name \in Names : Return(remove_process(M, name))

Connect ==
  /\ pc = "idle"
  /\ \E connection \in cat.conns :
       /\ ListsWithin(connect(M, connection).d, MaxConnections)
       /\ Return(connect(M, connection))

Disconnect ==
  /\ pc = "idle"
  /\ \E connection \in cat.conns : Return(disconnect(M, connection))

Reset ==
  /\ pc = "idle"
  /\ LET r == reset(M) IN
       /\ d' = r.d
       /\ procs' = r.procs
       /\ outcome' = IF r.err = "ResetWhileRunning" THEN outcome ELSE NoOutcome
  /\ UNCHANGED <<cat, pc>>

Start ==
  /\ pc = "idle"
  /\ Return(start(M))

Stop ==
  /\ pc = "idle"
  /\ Return(stop(M))

SetupPipeline ==
  /\ pc = "idle"
  /\ LET r == setup_begin(M) IN
       /\ d' = r.d
       /\ procs' = r.procs
       /\ IF r.err # ""
          THEN pc' = pc /\ outcome' = Outcome("setup_pipeline", r.err)
          ELSE pc' = "map_cluster_connections" /\ outcome' = NoOutcome
  /\ UNCHANGED cat

\* One pass inside the try block: on an exception the catch block runs and
\* setup_pipeline rethrows; after the last pass setup_pipeline returns.
Pass(pass, F(_), next) ==
  /\ pc = pass
  /\ LET r == F(M) IN
       /\ procs' = r.procs
       /\ IF r.err # ""
          THEN /\ d' = setup_failed(r.d)
               /\ pc' = "idle"
               /\ outcome' = Outcome(pass, r.err)
          ELSE IF next = "idle"
          THEN /\ d' = setup_succeeded(r.d)
               /\ pc' = "idle"
               /\ outcome' = Outcome("", "ok")
          ELSE /\ d' = r.d
               /\ pc' = next
               /\ UNCHANGED outcome
  /\ UNCHANGED cat

\* Faulty variant: the required-port pass hands over to the init pass.
CheckForRequiredPorts_then_init ==
  Pass("check_for_required_ports", check_for_required_ports, "initialize_processes")

MapClusterConnections ==
  Pass("map_cluster_connections", map_cluster_connections, "configure_processes")
ConfigureProcesses ==
  Pass("configure_processes", configure_processes, "check_for_data_dep_ports")
CheckForDataDepPorts ==
  Pass("check_for_data_dep_ports", check_for_data_dep_ports, "propagate_pinned_types")
PropagatePinnedTypes ==
  Pass("propagate_pinned_types", propagate_pinned_types, "check_for_untyped_ports")
CheckForUntypedPorts ==
  Pass("check_for_untyped_ports", check_for_untyped_ports, "make_connections")
MakeConnections ==
  Pass("make_connections", make_connections, "check_for_required_ports")
CheckForRequiredPorts ==
  Pass("check_for_required_ports", check_for_required_ports, "check_for_dag")
CheckForDag ==
  Pass("check_for_dag", check_for_dag, "initialize_processes")
InitializeProcesses ==
  Pass("initialize_processes", initialize_processes, "check_port_frequencies")
\* The pass never returns when its work queue stops shrinking.
CheckPortFrequencies ==
  /\ Cardinality(d.process_map) # 1 => ~frequency_solution(M).hang
  /\ Pass("check_port_frequencies", check_port_frequencies, "idle")

Next ==
  \/ AddProcess
  \/ RemoveProcess
  \/ Connect
  \/ Disconnect
  \/ Reset
  \/ Start
  \/ Stop
  \/ SetupPipeline
  \/ MapClusterConnections
  \/ ConfigureProcesses
  \/ CheckForDataDepPorts
  \/ PropagatePinnedTypes
  \/ CheckForUntypedPorts
  \/ MakeConnections
  \/ CheckForRequiredPorts
  \/ CheckForDag
  \/ InitializeProcesses
  \/ CheckPortFrequencies

Spec == Init /\ [][Next]_vars

(***************************************************************************)
(* Properties.                                                             *)
(***************************************************************************)
\* setup_pipeline has returned normally and reset has not been called since.
SetupSucceeded == pc = "idle" /\ d.setup_successful

\* A pass of the latest setup_pipeline call threw, and no reset came since.
PassFailed == pc = "idle" /\ outcome.pass \notin {"", "setup_pipeline"}

InCatalog(c) == cat = c

Occurrences(conns, c) == Cardinality({i \in 1..Len(conns) : conns[i] = c})

\* C1: when a setup pass throws, setup_pipeline leaves setup set,
\* setup_in_progress cleared and setup_successful false, whichever pass it was.
C1_FailedSetupFlags ==
  PassFailed => d.setup /\ ~d.setup_in_progress /\ ~d.setup_successful

C1_Witness ==
  /\ PassFailed
  /\ outcome = Outcome("check_port_frequencies", "FrequencyMismatch")
  /\ d.setup /\ ~d.setup_in_progress /\ ~d.setup_successful

\* C2: after a successful setup the data-dependent, flow-untyped,
\* flow-pinned and cluster-pending lists are all empty.
C2_DeferredListsEmpty ==
  SetupSucceeded =>
    /\ d.data_dep_connections = <<>>
    /\ d.untyped_connections = <<>>
    /\ d.type_pinnings = <<>>
    /\ d.cluster_connections = <<>>

\* The flow-dependent chain: both connections were deferred and got resolved.
C2_Witness ==
  /\ SetupSucceeded
  /\ InCatalog(CatFlow)
  /\ d.planned_connections =
       <<Conn("a", "o", "b", "i"), Conn("b", "o", "c", "i")>>
  /\ Len(d.connections) = 2
  /\ d.untyped_connections = <<>> /\ d.type_pinnings = <<>>

\* C3: after a successful setup every resolved connection joins two names of
\* the process map, neither of them a name of the cluster map.
C3_ResolvedEndpointsAreProcesses ==
  SetupSucceeded =>
    \A i \in 1..Len(d.connections) :
      /\ up_name(d.connections[i]) \in d.process_map \ d.cluster_map
      /\ down_name(d.connections[i]) \in d.process_map \ d.cluster_map

\* n.out -> n.in was flattened through n and k down to x.o -> x.i.
C3_Witness ==
  /\ SetupSucceeded
  /\ InCatalog(CatNested)
  /\ d.cluster_map = {"k", "n"}
  /\ Conn("n", "out", "n", "in") \in
       {d.planned_connections[i] : i \in 1..Len(d.planned_connections)}
  /\ Occurrences(d.connections, Conn("x", "o", "x", "i")) = 2

\* The directed graph with an edge up -> down for every resolved connection
\* whose downstream port lacks input-nodep.
DependencyEdges(dd) ==
  {<<up_name(dd.connections[i]), down_name(dd.connections[i])>> : i \in
     {j \in 1..Len(dd.connections) :
        flag_input_nodep \notin
          Decl(down_name(dd.connections[j])).iports[
            down_port(dd.connections[j])].flags}}

\* C4: after a successful setup the graph of resolved connections into ports
\* without input-nodep is acyclic, also when a port has several senders.
C4_DependencyGraphAcyclic ==
  SetupSucceeded => ~HasCycle(DependencyEdges(d))

\* The edges bound to an input port and to an output port.
InputEdges(dd, name, port) ==
  {i \in DOMAIN dd.edge_map : dd.connections[i + 1][2] = <<name, port>>}

OutputEdges(dd, name, port) ==
  {i \in DOMAIN dd.edge_map : dd.connections[i + 1][1] = <<name, port>>}

\* C5: after a successful setup every required input port has exactly one
\* input edge and every required output port has at least one output edge;
\* and when the required-port pass starts with a required port of a registered
\* process that has no edge, the pass throws MissingConnection.
C5_RequiredPortsCovered ==
  /\ SetupSucceeded =>
       \A name \in d.process_map :
         /\ \A port \in DOMAIN Decl(name).iports :
              flag_required \in Decl(name).iports[port].flags
                => Cardinality(InputEdges(d, name, port)) = 1
         /\ \A port \in DOMAIN Decl(name).oports :
              flag_required \in Decl(name).oports[port].flags
                => OutputEdges(d, name, port) # {}
  /\ pc = "check_for_required_ports" =>
       ((\E name \in d.process_map :
           \/ \E port \in DOMAIN Decl(name).iports :
                /\ flag_required \in Decl(name).iports[port].flags
                /\ InputEdges(d, name, port) = {}
           \/ \E port \in DOMAIN Decl(name).oports :
                /\ flag_required \in Decl(name).oports[port].flags
                /\ OutputEdges(d, name, port) = {})
         => check_for_required_ports(M).err = "MissingConnection")

\* The names joined to S by resolved connections, taken in either direction.
RECURSIVE Component(_, _)
Component(dd, S) ==
  LET more == S \cup UNION {{up_name(dd.connections[i]),
                             down_name(dd.connections[i])} : i \in
                  {j \in 1..Len(dd.connections) :
                     \/ up_name(dd.connections[j]) \in S
                     \/ down_name(dd.connections[j]) \in S}}
  IN IF more = S THEN S ELSE Component(dd, more)

CoreFrequency(name) == procs[name].core[Len(procs[name].core)]

\* C7: after a successful setup, a resolved connection with both port
\* frequencies declared has freq(up) * upPortFreq = freq(down) * downPortFreq
\* for the frequencies given to its two processes.
C7_EdgeFrequenciesAgree ==
  SetupSucceeded =>
    \A i \in 1..Len(d.connections) :
      LET c == d.connections[i]
          up_port_freq == Decl(up_name(c)).oports[up_port(c)].freq
          down_port_freq == Decl(down_name(c)).iports[down_port(c)].freq
      IN (/\ up_port_freq # NoFreq /\ down_port_freq # NoFreq
          /\ procs[up_name(c)].core # <<>> /\ procs[down_name(c)].core # <<>>)
           => RatMul(CoreFrequency(up_name(c)), up_port_freq)
                = RatMul(CoreFrequency(down_name(c)), down_port_freq)

\* C8: after a successful setup set_core_frequency has been called exactly
\* once on every registered process.
C8_CoreFrequencySetOnce ==
  SetupSucceeded => \A name \in d.process_map : Len(procs[name].core) = 1

\* The connections of every list of the builder.
InSomeList(dd, c) ==
  \/ \E i \in 1..Len(dd.planned_connections) : dd.planned_connections[i] = c
  \/ \E i \in 1..Len(dd.connections) : dd.connections[i] = c
  \/ \E i \in 1..Len(dd.data_dep_connections) : dd.data_dep_connections[i] = c
  \/ \E i \in 1..Len(dd.untyped_connections) : dd.untyped_connections[i] = c
  \/ \E i \in 1..Len(dd.type_pinnings) : dd.type_pinnings[i][1] = c
  \/ \E i \in 1..Len(dd.cluster_connections) : dd.cluster_connections[i][1] = c

\* C9: a disconnect(up, down) that succeeds before setup leaves the connection
\* in none of the builder's lists.
C9_DisconnectForgetsConnection ==
  (pc = "idle" /\ ~d.setup) =>
    \A c \in cat.conns :
      disconnect(M, c).err = "" => ~InSomeList(disconnect(M, c).d, c)

\* The connections of every list of the builder that name the process.
NamedInSomeList(dd, name) ==
  \E c \in {dd.planned_connections[i] : i \in 1..Len(dd.planned_connections)}
       \cup {dd.connections[i] : i \in 1..Len(dd.connections)}
       \cup {dd.data_dep_connections[i] : i \in 1..Len(dd.data_dep_connections)}
       \cup {dd.untyped_connections[i] : i \in 1..Len(dd.untyped_connections)}
       \cup {dd.type_pinnings[i][1] : i \in 1..Len(dd.type_pinnings)}
       \cup {dd.cluster_connections[i][1] : i \in 1..Len(dd.cluster_connections)} :
    is_connection_with(name, c)

\* C10: a remove_process(name) that succeeds before setup leaves no connection
\* naming name in any list, for a plain process and for a cluster.
C10_RemoveForgetsConnections ==
  (pc = "idle" /\ ~d.setup) =>
    \A name \in Names :
      remove_process(M, name).err = ""
        => ~NamedInSomeList(remove_process(M, name).d, name)

\* The addresses named by the planned connections.
PlannedAddrs(dd) ==
  UNION {{dd.planned_connections[i][1], dd.planned_connections[i][2]} :
           i \in 1..Len(dd.planned_connections)}

\* What the registry and planned-connection queries return, asked about every
\* name and about the addresses in addrs.
Observable(dd, addrs) ==
  [process_names |-> process_names(dd),
   cluster_names |-> cluster_names(dd),
   process_by_name |-> [nm \in Names |-> process_by_name(dd, nm)],
   cluster_by_name |-> [nm \in Names |-> cluster_by_name(dd, nm)],
   parent_cluster |-> [nm \in Names |-> parent_cluster(dd, nm)],
   connections_from_addr |->
     [a \in addrs |-> connections_from_addr(dd, a[1], a[2])],
   connection_to_addr |->
     [a \in addrs |-> connection_to_addr(dd, a[1], a[2])]]

\* C11: before setup, add_process(p) of an unregistered p followed by
\* remove_process(p.name) leaves every observable query returning what it
\* returned before the two calls.
C11_AddRemoveRoundTrip ==
  (pc = "idle" /\ ~d.setup) =>
    \A p \in {o \in Names : name_of(o) \notin d.process_map \cup d.cluster_map} :
      LET added == add_process(M, p)
          removed == remove_process(added, name_of(p))
          addrs == PlannedAddrs(d) \cup PlannedAddrs(removed.d)
      IN (added.err = "" /\ removed.err = "")
           => Observable(removed.d, addrs) = Observable(d, addrs)

\* C12: before setup, a connect(a) that is accepted followed by disconnect(a)
\* leaves the planned list as it was before the two calls.
C12_ConnectDisconnectRoundTrip ==
  (pc = "idle" /\ ~d.setup) =>
    \A a \in cat.conns :
      connect(M, a).err = ""
        => disconnect(connect(M, a), a).d.planned_connections
             = d.planned_connections

\* The number of times each connection occurs in a list.
Multiplicity(conns) ==
  [c \in {conns[i] : i \in 1..Len(conns)} |-> Occurrences(conns, c)]

\* C13: after a successful setup, reset() and then setup_pipeline() with the
\* planned list unchanged both succeed, and the second setup yields the same
\* resolved connections, as many edges and the same process frequencies.
C13_ResetThenSetupRepeats ==
  (SetupSucceeded /\ ~d.running) =>
    /\ reset(M).err = ""
    /\ LET again == setup_pipeline(reset(M)) IN
       /\ again.err = ""
       /\ Multiplicity(again.d.connections) = Multiplicity(d.connections)
       /\ Cardinality(DOMAIN again.d.edge_map) = Cardinality(DOMAIN d.edge_map)
       /\ \A nm \in d.process_map : again.procs[nm].core = procs[nm].core

\* C14: with the setup flag set and no setup_pipeline call in progress, connect
\* throws ConnectionAfterSetup; a connect made by the user before setup
\* appends the connection to planned; a connect made inside a setup pass, or
\* by the replay of reset, leaves planned as it is.
C14_ConnectAndPlanned ==
  /\ (pc = "idle" /\ d.setup) =>
       \A c \in cat.conns : connect(M, c).err = "ConnectionAfterSetup"
  /\ (pc = "idle" /\ ~d.setup) =>
       \A c \in cat.conns :
         connect(M, c).d.planned_connections = Append(d.planned_connections, c)
  /\ pc # "idle" =>
       \A c \in cat.conns :
         connect(M, c).d.planned_connections = d.planned_connections
  /\ (pc = "idle" /\ ~d.running) =>
       reset(M).d.planned_connections = d.planned_connections

\* C15: setup_pipeline throws DuplicateSetup when the builder is Ready and
\* NoProcesses when the registry is empty, and in both cases leaves the
\* builder and its processes as they were.
C15_SetupEntryErrors ==
  pc = "idle" =>
    /\ d.setup_successful =>
         /\ setup_pipeline(M).err = "DuplicateSetup"
         /\ setup_pipeline(M).d = d
         /\ setup_pipeline(M).procs = procs
    /\ (d.process_map = {} /\ d.cluster_map = {}) =>
         /\ setup_pipeline(M).err = "NoProcesses"
         /\ setup_pipeline(M).d = d
         /\ setup_pipeline(M).procs = procs

C15_Witness ==
  /\ pc = "idle"
  /\ d.setup_successful
  /\ outcome = Outcome("setup_pipeline", "DuplicateSetup")

\* C16: a query guarded by ensure_setup throws PipelineNotSetup while the
\* setup flag is clear (also after reset), throws PipelineNotReady after a
\* failed setup, and passes the guard while a setup pass is in progress and
\* after a successful setup.
C16_QueryGuard ==
  /\ ~d.setup => ensure_setup(M).err = "PipelineNotSetup"
  /\ PassFailed => ensure_setup(M).err = "PipelineNotReady"
  /\ pc # "idle" => ensure_setup(M).err = ""
  /\ SetupSucceeded => ensure_setup(M).err = ""

C16_Witness ==
  /\ pc = "check_for_dag"
  /\ d.connections # <<>>
  /\ ensure_setup(M).err = ""
  /\ upstream_for_process(d, down_name(d.connections[1]))
       = <<up_name(d.connections[1])>>

\* The entries of the resolved, deferred and cluster-pending lists.
BookEntries(dd) ==
  dd.connections \o dd.data_dep_connections \o dd.untyped_connections
    \o [i \in 1..Len(dd.type_pinnings) |-> dd.type_pinnings[i][1]]
    \o [i \in 1..Len(dd.cluster_connections) |-> dd.cluster_connections[i][1]]

\* C17: reset() while Running throws ResetWhileRunning and changes nothing;
\* reset() while Ready succeeds, clears setup and setup_successful, empties
\* the edge map, rebuilds the resolved and deferred lists from a replay of
\* every planned connection, and leaves planned and the registry unchanged.
C17_Reset ==
  pc = "idle" =>
    /\ d.running =>
         /\ reset(M).err = "ResetWhileRunning"
         /\ reset(M).d = d
         /\ reset(M).procs = procs
    /\ (d.setup_successful /\ ~d.running) =>
         LET r == reset(M) IN
         /\ r.err = ""
         /\ ~r.d.setup /\ ~r.d.setup_successful /\ ~r.d.setup_in_progress
         /\ r.d.edge_map = <<>>
         /\ Multiplicity(BookEntries(r.d)) = Multiplicity(d.planned_connections)
         /\ r.d.planned_connections = d.planned_connections
         /\ r.d.process_map = d.process_map
         /\ r.d.cluster_map = d.cluster_map

\* C18: start takes Ready to Running and stop takes Running back to Ready;
\* start throws PipelineNotSetup in Unconfigured and PipelineNotReady in
\* Failed; stop when not running throws a logic error; a call that throws
\* changes nothing.
C18_StartStop ==
  pc = "idle" =>
    /\ (d.setup_successful /\ ~d.running) =>
         /\ start(M).err = ""
         /\ start(M).d = [d EXCEPT !.running = TRUE]
    /\ d.running =>
         /\ d.setup /\ d.setup_successful /\ ~d.setup_in_progress
         /\ stop(M).err = ""
         /\ stop(M).d = [d EXCEPT !.running = FALSE]
    /\ ~d.setup =>
         /\ start(M).err = "PipelineNotSetup"
         /\ start(M).d = d
         /\ ~d.running
    /\ PassFailed =>
         /\ start(M).err = "PipelineNotReady"
         /\ start(M).d = d
         /\ ~d.running
    /\ ~d.running =>
         /\ stop(M).err = "logic_error"
         /\ stop(M).d = d

C18_Witness ==
  /\ pc = "idle"
  /\ d.running
  /\ d.setup_successful
  /\ d.connections # <<>>

\* The children of a cluster, and theirs.
RECURSIVE Descendants(_)
Descendants(name) ==
  IF ~Decl(name).cluster THEN {}
  ELSE UNION {{Decl(name).processes[i]}
                \cup Descendants(Decl(name).processes[i]) :
                i \in 1..Len(Decl(name).processes)}

\* The internal connections of a cluster, and those of its descendants.
InternalConnections(name) ==
  UNION {{Decl(nm).internal_connections[i] :
            i \in 1..Len(Decl(nm).internal_connections)} :
           nm \in {c \in {name} \cup Descendants(name) : Decl(c).cluster}}

\* C20: add_process of a cluster either registers the cluster, all its
\* children and all its internal connections, or registers none of them.
C20_ClusterAddAtomic ==
  pc = "idle" =>
    \A k \in Names \ PlainNames :
      LET r == add_process(M, k) IN
      \/ /\ r.err = ""
         /\ name_of(k) \in r.d.cluster_map
         /\ {name_of(o) : o \in Descendants(k)}
              \subseteq r.d.process_map \cup r.d.cluster_map
         /\ \A c \in InternalConnections(k) :
              Occurrences(r.d.planned_connections, c) > 0
      \/ /\ r.err # ""
         /\ r.d.process_map = d.process_map
         /\ r.d.cluster_map = d.cluster_map
         /\ r.d.planned_connections = d.planned_connections

\* C19: add_process throws NullProcess for an absent process, AddAfterSetup
\* when the setup flag is set, and DuplicateName when the name is a key of the
\* process map or of the cluster map; the two maps never share a key.
C19_AddProcessErrors ==
  /\ pc = "idle" =>
       /\ add_process(M, Null).err = "NullProcess"
       /\ \A process \in Names :
            /\ d.setup => add_process(M, process).err = "AddAfterSetup"
            /\ (~d.setup /\ name_of(process) \in d.process_map \cup d.cluster_map)
                 => add_process(M, process).err = "DuplicateName"
  /\ d.process_map \cap d.cluster_map = {}

\* The cluster named p is registered, and the plain process p is refused.
C19_Witness ==
  /\ pc = "idle"
  /\ InCatalog(CatNames)
  /\ ~d.setup
  /\ d.cluster_map = {"p"}
  /\ add_process(M, "p").err = "DuplicateName"

\* The ports of a process object that carry the required flag.
RequiredPorts(name) ==
  {p \in DOMAIN Decl(name).iports : flag_required \in Decl(name).iports[p].flags}
    \cup
  {p \in DOMAIN Decl(name).oports : flag_required \in Decl(name).oports[p].flags}

\* No entry in the resolved, deferred or cluster-pending lists.
NoConnections(dd) == BookEntries(dd) = <<>>

\* C21: with exactly one registered process, no connections and no required
\* port on it, setup_pipeline succeeds and the process gets
\* set_core_frequency(1/1) exactly once.
C21_SingleProcessSetup ==
  (pc = "idle" /\ ~d.setup /\ Cardinality(d.process_map) = 1
     /\ NoConnections(d)) =>
    \A name \in d.process_map :
      RequiredPorts(name) = {} =>
        /\ setup_pipeline(M).err = ""
        /\ setup_pipeline(M).d.setup_successful
        /\ setup_pipeline(M).procs[name].core = <<base_freq>>

C21_Witness ==
  /\ SetupSucceeded
  /\ outcome = Outcome("", "ok")
  /\ Cardinality(d.process_map) = 1
  /\ NoConnections(d)
  /\ \A name \in d.process_map :
       RequiredPorts(name) = {} /\ procs[name].core = <<Rational(1, 1)>>

\* The pass that follows pass p in setup_pipeline ("idle": outside the call).
PassAfter(p) ==
  IF p = "idle" THEN PassOrder[1]
  ELSE LET i == CHOOSE j \in 1..Len(PassOrder) : PassOrder[j] = p
       IN IF i < Len(PassOrder) THEN PassOrder[i + 1] ELSE "idle"

\* What the pass order gives for the calls made on the processes.
CallOrder ==
  /\ d.edge_map # <<>> => \A name \in d.process_map : procs[name].configured = 1
  /\ (\E name \in d.process_map : procs[name].initialized > 0) =>
       /\ pc \in {"check_port_frequencies", "idle"}
       /\ check_for_dag(M).err = ""
  /\ (\E name \in d.process_map : procs[name].core # <<>>) =>
       \A name \in d.process_map : procs[name].initialized = 1
  /\ SetupSucceeded =>
       \A name \in d.process_map :
         procs[name].configured = 1 /\ procs[name].initialized = 1

\* C22: the setup passes run in the fixed order flatten, configure,
\* data-dependent check, pinned propagation, untyped check, edge
\* materialization, required-port and connectivity check, DAG check, init,
\* frequency; so every configure() comes before any edge is made, init() is
\* called only after the DAG check has passed, no set_core_frequency comes
\* before all init() calls, and a successful setup has called configure() and
\* init() exactly once on every process.
C22_PassOrder ==
  /\ []CallOrder
  /\ [][pc' # pc => pc' \in {PassAfter(pc), "idle"}]_vars

C22_Witness ==
  /\ SetupSucceeded
  /\ d.edge_map # <<>>
  /\ Cardinality(d.process_map) > 1
  /\ \A name \in d.process_map :
       /\ procs[name].configured = 1 /\ procs[name].initialized = 1
       /\ Len(procs[name].core) = 1

(***************************************************************************)
(* The type-check kernel on its own: check_connection_types applied to     *)
(* every pair of port types, on a book that holds what earlier calls left. *)
(***************************************************************************)
\* The port types of the table: any, data-dependent, two flow-dependent
\* tags and two concrete types.
PortTypes ==
  {type_any, type_data_dependent, FlowT, "flow-dependent[U]", T_int, T_float}

CheckConnectionTypes ==
  \E up_type \in PortTypes, down_type \in PortTypes,
     connection \in cat.conns :
    LET r == check_connection_types(M, connection, up_type, down_type) IN
      /\ Len(BookEntries(r.m.d)) <= MaxConnections
      /\ d' = r.m.d
      /\ outcome' = Outcome("check_connection_types", r.status)
      /\ UNCHANGED <<cat, procs, pc>>

TypeKernelSpec == Init /\ [][CheckConnectionTypes]_vars

\* The kernel deferred the connection by appending entry to one list.
DeferredTo(r, list, entry) ==
  /\ r.status = "type_deferred"
  /\ r.m = [M EXCEPT !.d[list] = Append(@, entry)]

\* C23: for every upstream type U and downstream type D the type-check kernel
\* gives the table's outcome and appends the connection to the table's list:
\* U data-dependent -> the data-dependent list; both flow-dependent -> the
\* flow-untyped list; only U flow-dependent -> flow-pinned, push-upstream;
\* only D flow-dependent -> flow-pinned, push-downstream; neither any nor
\* flow-dependent and U # D -> mismatch, nothing changed; otherwise
\* compatible, nothing changed.
C23_TypeTable ==
  \A U \in PortTypes, D \in PortTypes, c \in cat.conns :
    LET r == check_connection_types(M, c, U, D) IN
    IF U = type_data_dependent
    THEN DeferredTo(r, "data_dep_connections", c)
    ELSE IF IsFlowDep(U) /\ IsFlowDep(D)
    THEN DeferredTo(r, "untyped_connections", c)
    ELSE IF IsFlowDep(U)
    THEN DeferredTo(r, "type_pinnings", <<c, "push_upstream">>)
    ELSE IF IsFlowDep(D)
    THEN DeferredTo(r, "type_pinnings", <<c, "push_downstream">>)
    ELSE IF U # type_any /\ D # type_any /\ U # D
    THEN r.status = "type_mismatch" /\ r.m = M
    ELSE r.status = "type_compatible" /\ r.m = M

\* The kernel has sent one connection to the flow-untyped list and one to
\* the flow-pinned list, and has last reported a mismatch.
C23_Witness ==
  /\ d.untyped_connections # <<>>
  /\ \E i \in 1..Len(d.type_pinnings) : d.type_pinnings[i][2] = "push_upstream"
  /\ d.data_dep_connections = <<>> /\ d.connections = <<>>
  /\ outcome = Outcome("check_connection_types", "type_mismatch")

(***************************************************************************)
(* The builder before any setup: only the registry and the connection book *)
(* are worked on.                                                          *)
(***************************************************************************)
BuilderNext ==
  \/ AddProcess
  \/ RemoveProcess
  \/ Connect
  \/ Disconnect

BuilderSpec == Init /\ [][BuilderNext]_vars

PortFlags ==
  {flag_output_const, flag_input_mutable, flag_input_nodep, flag_required}

\* connect(c) gets as far as the flag test: the builder takes connections
\* and both ends are ports of registered processes.
ReachesFlagTest(c) ==
  /\ pc = "idle"
  /\ ~(d.setup /\ ~d.setup_in_progress)
  /\ up_name(c) \in d.process_map /\ down_name(c) \in d.process_map
  /\ has_output_port(up_name(c), up_port(c))
  /\ has_input_port(down_name(c), down_port(c))

\* C24: connect between two real processes is rejected with FlagMismatch
\* exactly when the upstream port carries output-const and the downstream
\* port carries input-mutable; no other combination of the four flags is
\* refused by the flag test.
C24_FlagMismatch ==
  /\ \A up_flags \in SUBSET PortFlags, down_flags \in SUBSET PortFlags :
       check_connection_flags(up_flags, down_flags)
         <=> ~(flag_output_const \in up_flags /\ flag_input_mutable \in down_flags)
  /\ \A c \in cat.conns :
       ReachesFlagTest(c) =>
         (connect(M, c).err = "FlagMismatch"
            <=> /\ flag_output_const \in Decl(up_name(c)).oports[up_port(c)].flags
                /\ flag_input_mutable \in Decl(down_name(c)).iports[down_port(c)].flags)

\* A const output was offered to an input that asks for a mutable datum, and
\* to one that does not.
C24_Witness ==
  /\ InCatalog(CatFlags)
  /\ ReachesFlagTest(Conn("f", "o", "c", "m"))
  /\ connect(M, Conn("f", "o", "c", "m")).err = "FlagMismatch"
  /\ d.planned_connections = <<Conn("f", "o", "c", "m"), Conn("f", "o", "c", "w")>>
  /\ d.connections = <<Conn("f", "o", "c", "w")>>

\* The output mappings of a cluster that end on one of its ports.
OutputMatches(addr) ==
  SelectSeq(ClusterDecl(addr[1]).output_mappings, LAMBDA mc : mc[2] = addr)

\* The builder as the flattener sees it while it walks its copy of the
\* cluster-pending list.
Flattening == [M EXCEPT !.d.cluster_connections = <<>>]

\* C25: for a pending connection whose upstream side is a cluster port, the
\* flattener throws NoSuchPort when no output mapping ends on that port and a
\* logic fault when more than one does, which fails the setup; with exactly
\* one it replaces the entry by the one call connect(internalUp, realDown).
C25_UpstreamClusterPort ==
  pc = "map_cluster_connections" =>
    \A i \in 1..Len(d.cluster_connections) :
      LET cc == d.cluster_connections[i]
          matches == OutputMatches(cc[1][1])
          r == map_cluster_connection(Flattening, cc)
      IN (cc[2] = "cluster_upstream" /\ up_name(cc[1]) \in d.cluster_map) =>
           /\ Len(matches) = 0 => r.err = "NoSuchPort"
           /\ Len(matches) > 1 => r.err = "logic_error"
           /\ Len(matches) = 1 =>
                r = connect(Flattening, <<matches[1][1], cc[1][2]>>)
           /\ (i = 1 /\ Len(matches) # 1) =>
                /\ map_cluster_connections(M).err = r.err
                /\ setup_pipeline([M EXCEPT !.d.setup = FALSE]).err = r.err
           /\ (Len(d.cluster_connections) = 1 /\ Len(matches) = 1
                 /\ r.err = "" /\ r.d.cluster_connections = <<>>) =>
                map_cluster_connections(M) = r

\* A setup has failed on the doubly mapped port m.out.
C25_Witness ==
  /\ InCatalog(CatMappings)
  /\ PassFailed
  /\ outcome = Outcome("map_cluster_connections", "logic_error")
  /\ d.planned_connections = <<Conn("m", "out", "m", "none")>>

\* The input mappings of a cluster that start on one of its ports.
InputMatches(addr) ==
  SelectSeq(ClusterDecl(addr[1]).input_mappings, LAMBDA mc : mc[1] = addr)

\* connect(up, down_i) for the downstream ends of the mappings, one after
\* the other, until one throws.
RECURSIVE ConnectEach(_, _, _)
ConnectEach(m, up, mappings) ==
  IF m.err # "" \/ mappings = <<>> THEN m
  ELSE ConnectEach(connect(m, <<up, mappings[1][2]>>), up, Tail(mappings))

\* C26: for a pending connection whose downstream side is a cluster port, the
\* flattener calls connect(realUp, internalDown_i) for every input mapping
\* that starts on that port, and throws NoSuchPort when there is none; with
\* the mappings k.in -> x.i and k.in -> x.j and the connection a.o -> k.in,
\* the resolved list after flattening is a.o -> x.i, a.o -> x.j and nothing
\* names k.
C26_DownstreamClusterPort ==
  pc = "map_cluster_connections" =>
    /\ \A i \in 1..Len(d.cluster_connections) :
         LET cc == d.cluster_connections[i]
             matches == InputMatches(cc[1][2])
             r == map_cluster_connection(Flattening, cc)
         IN (cc[2] = "cluster_downstream" /\ down_name(cc[1]) \in d.cluster_map) =>
              /\ Len(matches) = 0 =>
                   /\ r.err = "NoSuchPort"
                   /\ i = 1 => map_cluster_connections(M).err = "NoSuchPort"
              /\ Len(matches) > 0 => r = ConnectEach(Flattening, cc[1][1], matches)
    /\ (/\ InCatalog(CatCluster)
        /\ d.cluster_connections =
             <<(<<Conn("a", "o", "k", "in"), "cluster_downstream">>)>>
        /\ d.connections = <<>>
        /\ {"a", "x"} \subseteq d.process_map /\ "k" \in d.cluster_map) =>
         /\ map_cluster_connections(M).err = ""
         /\ map_cluster_connections(M).d.connections =
              <<Conn("a", "o", "x", "i"), Conn("a", "o", "x", "j")>>
         /\ map_cluster_connections(M).d.cluster_connections = <<>>

\* The flattener has fanned a.o -> k.in out to both mapped ports of x.
C26_Witness ==
  /\ InCatalog(CatCluster)
  /\ pc = "configure_processes"
  /\ d.planned_connections = <<Conn("a", "o", "k", "in")>>
  /\ d.connections = <<Conn("a", "o", "x", "i"), Conn("a", "o", "x", "j")>>
  /\ d.cluster_connections = <<>>

\* The builder at every entry of map_cluster_connections, the first call and
\* each call of itself, in order.
RECURSIVE FlattenEntries(_)
FlattenEntries(m) ==
  IF m.d.cluster_connections = <<>> THEN <<m>>
  ELSE LET m1 == map_cluster_sweep(m)
       IN IF m1.err # "" THEN <<m>> ELSE <<m>> \o FlattenEntries(m1)

\* How deep the clusters under a catalogued object nest: 0 for a process.
RECURSIVE KeyHeight(_)
KeyHeight(key) ==
  IF ~Decl(key).cluster THEN 0
  ELSE LET hs == {KeyHeight(Decl(key).processes[i]) :
                    i \in 1..Len(Decl(key).processes)} \cup {0}
       IN 1 + CHOOSE h \in hs : \A g \in hs : g <= h

Height(dd, name) ==
  IF name \in dd.cluster_map
  THEN KeyHeight(CHOOSE k \in Names : Decl(k).cluster /\ name_of(k) = name)
  ELSE 0

\* The greatest nesting rank among the cluster-pending entries.
MaxRank(dd) ==
  LET rs == {Height(dd, up_name(dd.cluster_connections[i][1]))
               + Height(dd, down_name(dd.cluster_connections[i][1])) :
               i \in 1..Len(dd.cluster_connections)} \cup {0}
  IN CHOOSE h \in rs : \A g \in rs : g <= h

\* propagate as propagate_pinned_types calls it for its first pinning: the
\* queue and the builder at every turn of the while loop, in order.
RECURSIVE PropagateSweeps(_)
PropagateSweeps(st) ==
  IF st.m.err # "" \/ st.kyu = <<>> THEN <<st>>
  ELSE <<st>> \o PropagateSweeps(propagate_sweep(st))

FirstPinningSweeps ==
  LET connection == d.type_pinnings[1][1]
      upward == d.type_pinnings[1][2] = "push_upstream"
      un == up_name(connection)
      dn == down_name(connection)
      r == IF upward
           THEN set_output_port_type(procs, un, up_port(connection),
                                     procs[dn].itype[down_port(connection)])
           ELSE set_input_port_type(procs, dn, down_port(connection),
                                    procs[un].otype[up_port(connection)])
  IN PropagateSweeps(
       [m |-> [M EXCEPT !.procs = r.procs, !.d.type_pinnings = <<>>],
        kyu |-> <<IF upward THEN un ELSE dn>>])

PinnedEntry ==
  /\ pc = "propagate_pinned_types"
  /\ d.type_pinnings # <<>>
  /\ process_by_name(d, up_name(d.type_pinnings[1][1]))
  /\ process_by_name(d, down_name(d.type_pinnings[1][1]))

\* The ports of registered processes whose type is still flow-dependent.
UnresolvedFlowPorts(m) ==
  Cardinality({np \in UNION {{<<nm, "i", pt>> : pt \in DOMAIN m.procs[nm].itype}
                               \cup {<<nm, "o", pt>> : pt \in DOMAIN m.procs[nm].otype} :
                             nm \in m.d.process_map} :
                 IF np[2] = "i" THEN IsFlowDep(m.procs[np[1]].itype[np[3]])
                 ELSE IsFlowDep(m.procs[np[1]].otype[np[3]])})

\* C27 as stated: every re-entry of the flattener finds the cluster-pending
\* list strictly shorter, and every turn of the propagator's loop strictly
\* lowers the number of unresolved flow-dependent ports.
C27_EachIterationReduces ==
  /\ pc = "map_cluster_connections" =>
       \A j \in 1..(Len(FlattenEntries(M)) - 1) :
         Len(FlattenEntries(M)[j + 1].d.cluster_connections)
           < Len(FlattenEntries(M)[j].d.cluster_connections)
  /\ PinnedEntry =>
       \A j \in 1..(Len(FirstPinningSweeps) - 1) :
         UnresolvedFlowPorts(FirstPinningSweeps[j + 1].m)
           < UnresolvedFlowPorts(FirstPinningSweeps[j].m)

\* C27, amended: the flattener and the propagator terminate.  Every re-entry
\* of the flattener strictly lowers the greatest nesting rank among the
\* pending entries (the list may keep its length, or grow under fan-out),
\* and every turn of the propagator's loop strictly lowers the length of the
\* queue plus the length of the flow-untyped list.
C27_Termination ==
  /\ pc = "map_cluster_connections" =>
       \A j \in 1..(Len(FlattenEntries(M)) - 1) :
         MaxRank(FlattenEntries(M)[j + 1].d) < MaxRank(FlattenEntries(M)[j].d)
  /\ PinnedEntry =>
       \A j \in 1..(Len(FirstPinningSweeps) - 1) :
         Len(FirstPinningSweeps[j + 1].kyu)
             + Len(FirstPinningSweeps[j + 1].m.d.untyped_connections)
           < Len(FirstPinningSweeps[j].kyu)
               + Len(FirstPinningSweeps[j].m.d.untyped_connections)

\* The nested clusters n and k are about to be flattened: n.out -> n.in takes
\* four re-entries, each with one pending entry.
C27_Witness ==
  /\ InCatalog(CatNested)
  /\ pc = "map_cluster_connections"
  /\ d.cluster_connections = <<(<<Conn("n", "out", "n", "in"), "cluster_upstream">>)>>
  /\ Len(FlattenEntries(M)) = 5
  /\ map_cluster_connections(M).d.connections = <<Conn("x", "o", "x", "i")>>

(***************************************************************************)
(* Setups of longer connection lists: a calling program has registered its *)
(* processes and made up to MaxSolverConnections connections, and calls    *)
(* setup_pipeline.                                                         *)
(***************************************************************************)
SeqsUpTo(S, n) == UNION {[1..k -> S] : k \in 0..n}

\* add_process for every process of the catalog, then connect for every
\* connection of cs.
Built(cs) ==
  ForEach(connect,
          ForEach(add_process,
                  [d |-> priv, procs |-> [nm \in PlainNames |-> NewProcess(nm)],
                   err |-> ""],
                  SortedNames(Names)),
          cs)

SolverInit ==
  /\ cat \in {CatFlow, CatFreq, CatCycle, CatSplit, CatChain, CatReject}
  /\ \E cs \in SeqsUpTo(cat.conns, MaxSolverConnections) :
       /\ Built(cs).err = ""
       /\ d = Built(cs).d
       /\ procs = Built(cs).procs
  /\ pc = "idle"
  /\ outcome = NoOutcome

SolverNext ==
  \/ SetupPipeline
  \/ MapClusterConnections
  \/ ConfigureProcesses
  \/ CheckForDataDepPorts
  \/ PropagatePinnedTypes
  \/ CheckForUntypedPorts
  \/ MakeConnections
  \/ CheckForRequiredPorts
  \/ CheckForDag
  \/ InitializeProcesses
  \/ CheckPortFrequencies

SolverSpec == SolverInit /\ [][SolverNext]_vars

\* C28: on a pipeline that passed the connectivity check the work queue of
\* the frequency solver empties: no sweep over the remaining connections
\* requeues every one of them without a new assignment.
C28_WorkQueueEmpties ==
  (pc = "check_port_frequencies" /\ Cardinality(d.process_map) # 1) =>
    ~frequency_solution(M).hang

\* The builder when the configure loop reaches its k-th process.
ConfigureTurn(k) ==
  ForEach(configure_process, M, SubSeq(process_names(d), 1, k - 1))

\* C29: in the configure pass every data-dependent entry whose upstream is
\* process p is handled right after p.configure(): an output that is still
\* data-dependent fails the setup with UntypedDataDependent; otherwise
\* connect is replayed for the entry with the type configure() gave, which
\* resolves it, defers it as flow-dependent or throws TypeMismatch, and the
\* entry leaves the data-dependent list; a pass that completes leaves the
\* data-dependent list empty.
C29_ConfigurePass ==
  pc = "configure_processes" =>
    /\ \A k \in 1..Len(process_names(d)) :
         LET p == process_names(d)[k]
             before == ConfigureTurn(k)
             configured == [before EXCEPT !.procs = configure(@, p)]
             mine == SelectSeq(before.d.data_dep_connections,
                               LAMBDA c : up_name(c) = p)
             others == SelectSeq(before.d.data_dep_connections,
                                 LAMBDA c : up_name(c) # p)
             r == configure_process(before, p)
         IN before.err = "" =>
              /\ r.err \in {"", "UntypedDataDependent", "TypeMismatch"}
              /\ (mine # <<>> /\ configured.procs[p].otype[up_port(mine[1])]
                                   = type_data_dependent) =>
                   r.err = "UntypedDataDependent"
              /\ (\A i \in 1..Len(mine) :
                    configured.procs[p].otype[up_port(mine[i])]
                      # type_data_dependent) =>
                   /\ r.err = ForEach(connect, configured, mine).err
                   /\ r.err = "" =>
                        r = [ForEach(connect, configured, mine)
                               EXCEPT !.d.data_dep_connections = others]
    /\ configure_processes(M).err = "" =>
         configure_processes(M).d.data_dep_connections = <<>>

\* configure() has settled e.o to int and the pass has replayed e.o -> c.i,
\* which had been set aside as data-dependent.
C29_Witness ==
  /\ InCatalog(CatData)
  /\ pc = "check_for_data_dep_ports"
  /\ d.planned_connections = <<Conn("e", "o", "c", "i")>>
  /\ d.connections = <<Conn("e", "o", "c", "i")>>
  /\ d.data_dep_connections = <<>>
  /\ procs["e"].otype["o"] = T_int

\* Every port of the process is flow-dependent with one and the same tag.
OneFamily(nm) ==
  /\ nm \in d.process_map
  /\ \E t \in {FlowT, "flow-dependent[U]"} :
       /\ \A pt \in DOMAIN procs[nm].itype : procs[nm].itype[pt] = t
       /\ \A pt \in DOMAIN procs[nm].otype : procs[nm].otype[pt] = t

\* The type at the typed end of a pinned connection.
PinnedType(pinning) ==
  IF pinning[2] = "push_upstream"
  THEN procs[down_name(pinning[1])].itype[down_port(pinning[1])]
  ELSE procs[up_name(pinning[1])].otype[up_port(pinning[1])]

\* The flow-dependent end of a pinned connection.
PinnedProcess(pinning) ==
  IF pinning[2] = "push_upstream"
  THEN up_name(pinning[1]) ELSE down_name(pinning[1])

\* The processes joined to a pinned one by flow-untyped connections.
ChainProcesses ==
  LET pinned == {PinnedProcess(d.type_pinnings[i]) : i \in 1..Len(d.type_pinnings)}
      E == UNION {{<<up_name(d.untyped_connections[i]), down_name(d.untyped_connections[i])>>,
                   <<down_name(d.untyped_connections[i]), up_name(d.untyped_connections[i])>>} :
                  i \in 1..Len(d.untyped_connections)}
  IN Reach(E, pinned, pinned)

\* The deferred lists hold flow-dependent chains, each with an end on a
\* port of type T, and no process of a chain refuses T.
ChainBook(T) ==
  /\ pc = "propagate_pinned_types"
  /\ d.type_pinnings # <<>>
  /\ \A i \in 1..Len(d.type_pinnings) :
       /\ process_by_name(d, up_name(d.type_pinnings[i][1]))
       /\ process_by_name(d, down_name(d.type_pinnings[i][1]))
       /\ PinnedType(d.type_pinnings[i]) = T
  /\ \A i \in 1..Len(d.untyped_connections) :
       {up_name(d.untyped_connections[i]), down_name(d.untyped_connections[i])}
         \subseteq ChainProcesses
  /\ \A nm \in ChainProcesses : OneFamily(nm) /\ T \notin Decl(nm).rejects

\* C30: for a chain of processes linked only by flow-dependent ports of one
\* family per process, with an end connected to a port of concrete type T,
\* propagate_pinned_types gives T to every flow-dependent port of the chain,
\* moves every chain connection to the resolved list and leaves the
\* flow-untyped and flow-pinned lists empty, whichever end is the typed one.
C30_ChainPropagation ==
  \A T \in {T_int, T_float} :
    ChainBook(T) =>
      LET r == propagate_pinned_types(M) IN
        /\ r.err = ""
        /\ r.d.untyped_connections = <<>>
        /\ r.d.type_pinnings = <<>>
        /\ \A i \in 1..Len(d.untyped_connections) :
             Occurrences(r.d.connections, d.untyped_connections[i])
               = Occurrences(d.connections, d.untyped_connections[i])
                   + Occurrences(d.untyped_connections, d.untyped_connections[i])
        /\ \A i \in 1..Len(d.type_pinnings) :
             Occurrences(r.d.connections, d.type_pinnings[i][1]) > 0
        /\ \A nm \in ChainProcesses :
             /\ \A pt \in DOMAIN r.procs[nm].itype : r.procs[nm].itype[pt] = T
             /\ \A pt \in DOMAIN r.procs[nm].otype : r.procs[nm].otype[pt] = T

\* The chain p -> a -> b with the typed end upstream has been propagated.
C30_Witness ==
  /\ InCatalog(CatChain)
  /\ pc = "check_for_untyped_ports"
  /\ d.planned_connections = <<Conn("a", "o", "b", "i"), Conn("p", "o", "a", "i")>>
  /\ Occurrences(d.connections, Conn("a", "o", "b", "i")) = 1
  /\ Occurrences(d.connections, Conn("p", "o", "a", "i")) = 1
  /\ d.untyped_connections = <<>> /\ d.type_pinnings = <<>>
  /\ procs["a"].otype["o"] = T_int /\ procs["b"].itype["i"] = T_int
  /\ procs["b"].otype["o"] = T_int

\* The book when the i-th pinning of the propagate_pinned_types pass is taken.
AtPinning(i) ==
  ForEach(propagate_pinning, [M EXCEPT !.d.type_pinnings = <<>>],
          SubSeq(d.type_pinnings, 1, i - 1))

\* The type mutator called on the pinned port itself.
PinMutator(m, pinning) ==
  IF pinning[2] = "push_upstream"
  THEN set_output_port_type(m.procs, up_name(pinning[1]), up_port(pinning[1]),
                            m.procs[down_name(pinning[1])].itype[down_port(pinning[1])])
  ELSE set_input_port_type(m.procs, down_name(pinning[1]), down_port(pinning[1]),
                           m.procs[up_name(pinning[1])].otype[up_port(pinning[1])])

\* The cascade started from the pinned process once its mutator has accepted.
PinCascade(m, pinning) ==
  propagate([m EXCEPT !.procs = PinMutator(m, pinning).procs],
            PinnedProcess(pinning))

\* The flow-dependent port of a pinning and the type declared at its other end.
OriginalPin(pinning) ==
  LET c == pinning[1] IN
  IF pinning[2] = "push_upstream"
  THEN [name |-> up_name(c), port |-> up_port(c),
        type |-> Decl(down_name(c)).iports[down_port(c)].type]
  ELSE [name |-> down_name(c), port |-> down_port(c),
        type |-> Decl(up_name(c)).oports[up_port(c)].type]

\* The first pinning whose mutator or cascade fails, 0 when none does.
FailingPinning ==
  LET bad == {i \in 1..Len(d.type_pinnings) :
                /\ AtPinning(i).err = ""
                /\ process_by_name(d, up_name(d.type_pinnings[i][1]))
                /\ process_by_name(d, down_name(d.type_pinnings[i][1]))
                /\ \/ ~PinMutator(AtPinning(i), d.type_pinnings[i]).ok
                   \/ PinCascade(AtPinning(i), d.type_pinnings[i]).err
                        = "propagation_exception"}
  IN IF bad = {} THEN 0 ELSE CHOOSE i \in bad : \A j \in bad : i <= j

\* setup_pipeline from the propagate_pinned_types pass to its return or throw.
RestOfSetup ==
  LET r == ForEach(run_pass, M, SubSeq(PassOrder, 4, Len(PassOrder)))
  IN IF r.err = "" THEN [r EXCEPT !.d = setup_succeeded(r.d)]
     ELSE [r EXCEPT !.d = setup_failed(r.d)]

\* C31: a type-mutator failure on the pinned port itself ends the pass with
\* DependentTypeError; a type-mutator failure in the cascade started from the
\* pin ends it with DependentTypeCascadeError built from that pin's name, port
\* and type; and setup_pipeline never ends with the propagation error itself.
C31_PinAndCascadeErrors ==
  /\ outcome.err # "propagation_exception"
  /\ pc = "idle" => setup_pipeline(M).err # "propagation_exception"
  /\ (pc = "propagate_pinned_types" /\ FailingPinning # 0) =>
       LET i == FailingPinning
           pinning == d.type_pinnings[i]
           m == AtPinning(i)
           r == propagate_pinned_types(M)
       IN /\ r.err # "propagation_exception"
          /\ ~PinMutator(m, pinning).ok => r.err = "DependentTypeError"
          /\ PinMutator(m, pinning).ok =>
               /\ r.err = "DependentTypeCascadeError"
               /\ cascade_exception(m, pinning) = OriginalPin(pinning)
          /\ RestOfSetup.err = r.err

\* a.i is pinned to int from p.o and the cascade reaches b, which refuses int.
C31_Witness ==
  /\ InCatalog(CatReject)
  /\ pc = "propagate_pinned_types"
  /\ FailingPinning = 1
  /\ d.type_pinnings[1] = <<Conn("p", "o", "a", "i"), "push_downstream">>
  /\ PinMutator(M, d.type_pinnings[1]).ok
  /\ propagate_pinned_types(M).err = "DependentTypeCascadeError"

\* The edge map holds one edge for each index of the resolved list, built
\* from the connection at that index.
EdgePerConnection(dd) ==
  /\ DOMAIN dd.edge_map = 0..(Len(dd.connections) - 1)
  /\ \A i \in DOMAIN dd.edge_map :
       LET c == dd.connections[i + 1] IN
         /\ dd.edge_map[i].dependency =
              (flag_input_nodep \notin Decl(down_name(c)).iports[down_port(c)].flags)
         /\ dd.edge_map[i].upstream = <<up_name(c), up_port(c)>>
         /\ dd.edge_map[i].downstream = <<down_name(c), down_port(c)>>
         /\ has_output_port(up_name(c), up_port(c))
         /\ has_input_port(down_name(c), down_port(c))

\* C32: make_connections builds exactly one edge per resolved connection and
\* stores it under the connection's index, so that after a successful setup
\* the keys of the edge map are 0..len(resolved)-1; an edge's dependency key
\* is false iff the downstream port carries input-nodep, and the edge is bound
\* to the upstream output port and the downstream input port of its
\* connection.
C32_EdgePerConnection ==
  /\ pc = "make_connections" =>
       /\ d.edge_map = <<>>
       /\ make_connections(M).err = "" => EdgePerConnection(make_connections(M).d)
  /\ SetupSucceeded => EdgePerConnection(d)

\* A successful setup with a dependent edge and an independent one.
C32_Witness ==
  /\ SetupSucceeded
  /\ Len(d.connections) = 2
  /\ \E i, j \in DOMAIN d.edge_map :
       d.edge_map[i].dependency /\ ~d.edge_map[j].dependency

\* The resolved connections into ports without input-nodep, as process pairs.
DependentLinks ==
  {<<up_name(d.connections[i]), down_name(d.connections[i])>> :
     i \in {j \in 1..Len(d.connections) :
              LET c == d.connections[j] IN
                /\ down_name(c) \in PlainNames
                /\ has_input_port(down_name(c), down_port(c))
                /\ flag_input_nodep \notin
                     Decl(down_name(c)).iports[down_port(c)].flags}}

\* Some resolved connection closes a directed cycle.
OnResolvedCycle ==
  LET E == {<<up_name(d.connections[i]), down_name(d.connections[i])>> :
              i \in 1..Len(d.connections)}
  IN HasCycle(E)

\* C33: connections into input-nodep ports are left out of the DAG check: a
\* pipeline whose every directed cycle holds a connection into an input-nodep
\* port is never rejected with NotADAG, and the two-process cycle a.o->b.i,
\* b.o->a.i with a.i input-nodep sets up successfully.
C33_NodepCyclesPass ==
  /\ (pc = "check_for_dag" /\ ~HasCycle(DependentLinks)) => check_for_dag(M).err = ""
  /\ ~HasCycle(DependentLinks) => outcome.err # "NotADAG"
  /\ (/\ InCatalog(CatCycle)
      /\ pc = "idle" /\ ~d.setup /\ ~d.setup_in_progress
      /\ d.process_map = {"a", "b"}
      /\ Len(d.planned_connections) = 2
      /\ {d.planned_connections[1], d.planned_connections[2]}
           = {Conn("a", "o", "b", "i"), Conn("b", "o", "a", "i")}
      /\ Len(d.connections) = 2) =>
       setup_pipeline(M).err = ""

\* The cycle a.o->b.i, b.o->a.i has passed the DAG check.
C33_Witness ==
  /\ InCatalog(CatCycle)
  /\ SetupSucceeded
  /\ OnResolvedCycle
  /\ Occurrences(d.connections, Conn("a", "o", "b", "i")) = 1
  /\ Occurrences(d.connections, Conn("b", "o", "a", "i")) = 1

\* The greatest common divisor of the numerators of a non-empty set of
\* frequencies.
RECURSIVE GcdOfNumerators(_)
GcdOfNumerators(fs) ==
  LET f == CHOOSE x \in fs : TRUE IN
  IF fs = {f} THEN f[1] ELSE GCD(f[1], GcdOfNumerators(fs \ {f}))

\* The core frequencies the frequency pass hands to set_core_frequency.
CoreFrequencies(r) ==
  {r.procs[nm].core[Len(r.procs[nm].core)] :
     nm \in {x \in d.process_map : r.procs[x].core # <<>>}}

\* C34: the core frequency handed to each process is L*freq[name], L the
\* least common multiple of the denominators of the assigned frequencies;
\* every core frequency is an integer and their greatest common divisor is 1;
\* for a.o=1/1, b.i=1/2, b.o=1/1, c.i=1/3 on a.o->b.i, b.o->c.i the core
\* frequencies are 1, 2 and 6.
C34_CoreFrequencies ==
  (/\ pc = "check_port_frequencies"
   /\ Cardinality(d.process_map) # 1
   /\ ~frequency_solution(M).hang
   /\ frequency_solution(M).err = "") =>
    LET fm == frequency_solution(M).freq_map
        L == LcmOfDenominators(fm, SortedNames(DOMAIN fm))
        r == check_port_frequencies(M)
    IN /\ \A nm \in DOMAIN fm :
            /\ r.procs[nm].core = <<RatMul(Rational(L, 1), fm[nm])>>
            /\ r.procs[nm].core[1][2] = 1
       /\ \A nm \in d.process_map \ DOMAIN fm : r.procs[nm].core = <<>>
       /\ CoreFrequencies(r) # {} => GcdOfNumerators(CoreFrequencies(r)) = 1
       /\ (InCatalog(CatFreq)
           /\ d.connections = <<Conn("a", "o", "b", "i"), Conn("b", "o", "c", "i")>>) =>
            /\ r.procs["a"].core = <<(<<1, 1>>)>>
            /\ r.procs["b"].core = <<(<<2, 1>>)>>
            /\ r.procs["c"].core = <<(<<6, 1>>)>>

\* The parent links of the registered names, child first.
ParentLinks ==
  {<<nm, d.process_parent_map[nm]>> :
     nm \in {x \in DOMAIN d.process_parent_map : d.process_parent_map[x] # NoName}}

\* C35: the parent stack is empty whenever no add_process call is executing,
\* also after an add_process of a cluster that failed part-way; so a process
\* added at top level gets the empty name as its parent, and the parent links
\* form a forest in which every registered name has one parent entry.
C35_ParentStackEmpty ==
  pc = "idle" =>
    /\ d.parent_stack = <<>>
    /\ \A process \in PlainNames :
         add_process(M, process).err = "" =>
           add_process(M, process).d.process_parent_map[name_of(process)] = NoName
    /\ \A nm \in d.process_map \cup d.cluster_map :
         nm \in DOMAIN d.process_parent_map
    /\ ~HasCycle(ParentLinks)

====
